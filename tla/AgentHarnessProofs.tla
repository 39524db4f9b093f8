-------------------------- MODULE AgentHarnessProofs --------------------------
(***************************************************************************)
(* Proofs about AgentHarness, for any number of operations, messages,      *)
(* writes, failures and aborts, as long as the application starts an       *)
(* operation only once the one before has been settled (~Overlap).         *)
(***************************************************************************)
EXTENDS AgentHarness, TLAPS

(* A leaf that names no prover is Zenon's. *)
USE Zenon

-----------------------------------------------------------------------------
(* Sequences *)

(* Sequences: a larger set of elements, the parts of a sequence. *)
LEMMA SeqMonotonic ==
  ASSUME NEW S, NEW T, S \subseteq T, NEW s \in Seq(S)
  PROVE  s \in Seq(T)
BY SMTT(30)

(* The length, the indices and the elements of a sequence. *)
LEMMA SeqParts ==
  ASSUME NEW S, NEW s \in Seq(S)
  PROVE  /\ Len(s) \in Nat /\ DOMAIN s = 1..Len(s)
         /\ \A i \in DOMAIN s : s[i] \in S
BY SMTT(30)

(* The empty sequence. *)
LEMMA EmptySeq ==
  ASSUME NEW S
  PROVE  /\ <<>> \in Seq(S) /\ Len(<<>>) = 0 /\ DOMAIN <<>> = {}
         /\ \A s \in Seq(S) : s # <<>> => Len(s) \in Nat \ {0}
BY SMTT(30)

(* Two sequences with the same elements. *)
LEMMA SameSeq ==
  ASSUME NEW S, NEW s \in Seq(S), NEW t \in Seq(S),
         Len(s) = Len(t), \A i \in 1..Len(s) : s[i] = t[i]
  PROVE  s = t
BY SMTT(30)

(* The first element, and the others. *)
LEMMA HeadTail ==
  ASSUME NEW S, NEW s \in Seq(S), s # <<>>
  PROVE  /\ Head(s) \in S /\ Tail(s) \in Seq(S)
         /\ Len(Tail(s)) = Len(s) - 1
         /\ \A i \in 1..Len(Tail(s)) : Tail(s)[i] = s[i + 1]
BY SMTT(30)

(* An element added at the end. *)
LEMMA AppendParts ==
  ASSUME NEW S, NEW s \in Seq(S), NEW e \in S
  PROVE  /\ Append(s, e) \in Seq(S) /\ Len(Append(s, e)) = Len(s) + 1
         /\ DOMAIN Append(s, e) = 1..(Len(s) + 1)
         /\ \A i \in 1..Len(s) : Append(s, e)[i] = s[i]
         /\ Append(s, e)[Len(s) + 1] = e
BY SMTT(30)

(* Two sequences joined. *)
LEMMA ConcatParts ==
  ASSUME NEW S, NEW s \in Seq(S), NEW t \in Seq(S)
  PROVE  /\ s \o t \in Seq(S) /\ Len(s \o t) = Len(s) + Len(t)
         /\ \A i \in 1..(Len(s) + Len(t)) :
              (s \o t)[i] = IF i <= Len(s) THEN s[i] ELSE t[i - Len(s)]
BY SMTT(30)

(* A part of a sequence. *)
LEMMA SubSeqParts ==
  ASSUME NEW S, NEW s \in Seq(S), NEW m \in 1..(Len(s) + 1), NEW n \in 0..Len(s)
  PROVE  /\ SubSeq(s, m, n) \in Seq(S)
         /\ Len(SubSeq(s, m, n)) = IF m <= n THEN n - m + 1 ELSE 0
         /\ \A i \in 1..(n - m + 1) : SubSeq(s, m, n)[i] = s[m + i - 1]
<1>1. SubSeq(s, m, n) \in Seq(S)
  BY SMTT(30)
<1>2. Len(SubSeq(s, m, n)) = IF m <= n THEN n - m + 1 ELSE 0
  BY SMTT(30)
<1>3. \A i \in 1..(n - m + 1) : SubSeq(s, m, n)[i] = s[m + i - 1]
  <2>1. CASE m <= n
    BY <2>1, SMTT(30)
  <2>2. CASE ~(m <= n)
    BY <2>2, SMTT(30)
  <2> QED
    BY <2>1, <2>2
<1> QED
  BY <1>1, <1>2, <1>3

(* The elements of a sequence. *)
LEMMA RangeOfSeq ==
  ASSUME NEW S, NEW s \in Seq(S)
  PROVE  Range(s) \subseteq S
BY SMTT(30) DEF Range

(* The elements of two sequences joined. *)
LEMMA RangeConcat ==
  ASSUME NEW S, NEW s \in Seq(S), NEW t \in Seq(S)
  PROVE  Range(s \o t) = Range(s) \cup Range(t)
<1> DEFINE c == s \o t
<1>1. /\ Len(s) \in Nat /\ DOMAIN s = 1..Len(s) /\ Len(t) \in Nat /\ DOMAIN t = 1..Len(t)
      /\ DOMAIN c = 1..(Len(s) + Len(t))
  BY SMTT(30)
<1>2. \A i \in DOMAIN c : c[i] = IF i <= Len(s) THEN s[i] ELSE t[i - Len(s)]
  BY <1>1, SMTT(30)
<1> HIDE DEF c
<1>3. Range(c) \subseteq Range(s) \cup Range(t)
  BY <1>1, <1>2, SMTT(30) DEF Range
<1>4. ASSUME NEW i \in DOMAIN s PROVE s[i] \in Range(c)
  <2>1. i \in DOMAIN c /\ c[i] = s[i]
    BY <1>1, <1>2, SMTT(30)
  <2> QED
    BY <2>1 DEF Range
<1>5. ASSUME NEW i \in DOMAIN t PROVE t[i] \in Range(c)
  <2>1. i + Len(s) \in DOMAIN c /\ c[i + Len(s)] = t[i]
    BY <1>1, <1>2, SMTT(30)
  <2> QED
    BY <2>1 DEF Range
<1>6. Range(s) \cup Range(t) \subseteq Range(c)
  BY <1>4, <1>5 DEF Range
<1> QED
  BY <1>3, <1>6 DEF c

-----------------------------------------------------------------------------
(* Types *)

(* A record of an operation keeps its type when one field is set. *)
LEMMA FieldSet ==
  ASSUME NEW r \in OpType
  PROVE  /\ \A p \in OpPcs : [r EXCEPT !.pc = p] \in OpType
         /\ \A k \in {"prompt", "compact", "navigate"} : [r EXCEPT !.kind = k] \in OpType
         /\ \A p \in {"save_point", "prepare", "agent_end", "cleanup"} :
              [r EXCEPT !.ret = p] \in OpType
         /\ \A s \in Seq(SentIds \cup {PromptMessage}) : [r EXCEPT !.inbox = s] \in OpType
         /\ \A n \in Nat : [r EXCEPT !.generation = n] \in OpType
         /\ \A b \in BOOLEAN : [r EXCEPT !.polled = b] \in OpType
         /\ \A l \in {"stop", "tools", "failed"} : [r EXCEPT !.last = l] \in OpType
         /\ \A n \in Nat : [r EXCEPT !.requests = n] \in OpType
         /\ \A b \in BOOLEAN : [r EXCEPT !.failing = b] \in OpType
         /\ \A b \in BOOLEAN : [r EXCEPT !.error = b] \in OpType
         /\ \A b \in BOOLEAN : [r EXCEPT !.ended = b] \in OpType
         /\ \A m \in Modes : [r EXCEPT !.original = m] \in OpType
BY ZenonT(40) DEF OpType

(* The fields of an operation. *)
LEMMA Fields ==
  ASSUME NEW r \in OpType
  PROVE  /\ r.pc \in OpPcs /\ r.kind \in {"prompt", "compact", "navigate"}
         /\ r.ret \in {"save_point", "prepare", "agent_end", "cleanup"}
         /\ r.inbox \in Seq(SentIds \cup {PromptMessage})
         /\ r.generation \in Nat /\ r.polled \in BOOLEAN
         /\ r.last \in {"stop", "tools", "failed"} /\ r.requests \in Nat
         /\ r.failing \in BOOLEAN /\ r.error \in BOOLEAN /\ r.ended \in BOOLEAN
         /\ r.original \in Modes
BY DEF OpType

(* An operation that was not started yet, or is done. *)
LEMMA UnstartedType ==
  /\ Unstarted \in OpType
  /\ \A k \in {"prompt", "compact", "navigate"} :
       [Unstarted EXCEPT !.pc = "done", !.kind = k] \in OpType
<1>1. <<>> \in Seq(SentIds \cup {PromptMessage})
  BY SMTT(30)
<1>2. Unstarted \in OpType
  BY <1>1 DEF Unstarted, OpType, OpPcs, Modes
<1> QED
  BY <1>2, FieldSet DEF OpPcs

(* The point at which an operation goes on. *)
LEMMA GoesTyped ==
  ASSUME op \in [Ops -> OpType], NEW o \in Ops
  PROVE  /\ \A p \in OpPcs : Go(o, p) => op' \in [Ops -> OpType]
         /\ \A p \in {"save_point", "prepare", "agent_end", "cleanup"} :
              GoFlush(o, p) => op' \in [Ops -> OpType]
         /\ Thrown(o) => op' \in [Ops -> OpType]
         /\ Done(o) => op' \in [Ops -> OpType]
<1>1. ASSUME NEW p \in OpPcs, Go(o, p) PROVE op' \in [Ops -> OpType]
  <2>1. [op[o] EXCEPT !.pc = p] \in OpType
    BY FieldSet
  <2> QED
    BY <1>1, <2>1 DEF Go
<1>2. ASSUME NEW p \in {"save_point", "prepare", "agent_end", "cleanup"}, GoFlush(o, p)
      PROVE  op' \in [Ops -> OpType]
  BY <1>2, FieldSet DEF GoFlush, OpPcs
<1>3. ASSUME Thrown(o) PROVE op' \in [Ops -> OpType]
  <2>1. CASE op[o].failing
    BY <1>3, <2>1, FieldSet DEF Thrown, OpPcs
  <2>2. CASE ~op[o].failing
    BY <1>3, <2>2, FieldSet DEF Thrown, OpPcs
  <2> QED
    BY <2>1, <2>2
<1>4. Done(o) => op' \in [Ops -> OpType]
  BY Fields, UnstartedType, ZenonT(40) DEF Done
<1> QED
  BY <1>1, <1>2, <1>3, <1>4

(* Sequences of messages. *)
LEMMA Taken ==
  ASSUME NEW T, NEW q \in Seq(T), q # <<>>, NEW n \in DrainCounts(q)
  PROVE  /\ n \in 1..Len(q) /\ Len(q) \in Nat
         /\ SubSeq(q, 1, n) \in Seq(T) /\ SubSeq(q, n + 1, Len(q)) \in Seq(T)
<1>1. n \in 1..Len(q) /\ Len(q) \in Nat
  BY SMTT(30) DEF DrainCounts
<1> QED
  BY <1>1, SubSeqParts, SMTT(30)

(* The prompt's message goes behind the messages of the next turn. *)
LEMMA InboxTyped ==
  ASSUME NEW q \in Seq(SentIds)
  PROVE  /\ q \in Seq(SentIds \cup {PromptMessage})
         /\ Append(q, PromptMessage) \in Seq(SentIds \cup {PromptMessage})
BY SMTT(30)

(* Every step of an operation leaves the operations well typed. *)
LEMMA OpStepTyped ==
  ASSUME TypeOK, NEW o \in Ops, OpStep(o)
  PROVE  op' \in [Ops -> OpType]
<1>0. /\ op \in [Ops -> OpType] /\ op[o] \in OpType /\ generation \in Nat
      /\ op[o].inbox \in Seq(SentIds \cup {PromptMessage}) /\ op[o].requests \in Nat
      /\ op[o].ret \in {"save_point", "prepare", "agent_end", "cleanup"}
      /\ steerQueue \in Seq(SentIds) /\ followUpQueue \in Seq(SentIds)
      /\ nextTurnQueue \in Seq(SentIds)
  BY Fields DEF TypeOK
<1>1. CASE TakeNextTurn(o)
  <2>1. Append(nextTurnQueue, PromptMessage) \in Seq(SentIds \cup {PromptMessage})
    BY <1>0, InboxTyped
  <2> QED
    BY <1>0, <1>1, <2>1, FieldSet DEF TakeNextTurn, OpPcs
<1>2. CASE \/ TakeAnnounced(o) \/ StartLoop(o) \/ Messages(o) \/ Drained(o)
           \/ FlushAppend(o) \/ FlushShift(o)
  BY <1>0, <1>2, GoesTyped
  DEF TakeAnnounced, StartLoop, Messages, Drained, FlushAppend, FlushShift, OpPcs
<1>3. CASE Inject(o)
  <2>1. Tail(op[o].inbox) \in Seq(SentIds \cup {PromptMessage})
    BY <1>0, <1>3, SMTT(30) DEF Inject
  <2> QED
    BY <1>0, <1>3, <2>1, FieldSet DEF Inject
<1>4. CASE Injected(o)
  BY <1>0, <1>4, FieldSet DEF Injected, OpPcs
<1>5. CASE Request(o)
  <2>1. PICK r \in {"stop", "tools", "failed"} :
          op' = [op EXCEPT ![o].pc = "message", ![o].last = r, ![o].requests = @ + 1]
    BY <1>5 DEF Request
  <2> DEFINE a == [[op[o] EXCEPT !.pc = "message"] EXCEPT !.last = r]
  <2>2. a \in OpType
    BY <1>0, FieldSet DEF OpPcs
  <2>3. op' = [op EXCEPT ![o] = [a EXCEPT !.requests = a.requests + 1]]
    BY <1>0, <2>1
  <2> HIDE DEF a
  <2>4. a.requests + 1 \in Nat
    BY <2>2, Fields, SMTT(30)
  <2>5. [a EXCEPT !.requests = a.requests + 1] \in OpType
    BY <2>2, <2>4, FieldSet
  <2> QED
    BY <1>0, <2>3, <2>5
<1>6. CASE TurnEnd(o) \/ SavePoint(o)
  BY <1>0, <1>6, GoesTyped DEF TurnEnd, SavePoint
<1>7. CASE Prepare(o)
  <2>1. CASE o \in signalled
    BY <1>0, <1>7, <2>1, FieldSet DEF Prepare, OpPcs
  <2>2. CASE o \notin signalled
    BY <1>0, <1>7, <2>2, FieldSet DEF Prepare, OpPcs
  <2> QED
    BY <2>1, <2>2
<1>8. CASE NothingQueued(o)
  <2>1. AfterEmptyPoll(o) \in OpPcs
    BY DEF AfterEmptyPoll, OpPcs
  <2> QED
    BY <1>0, <1>8, <2>1, GoesTyped DEF NothingQueued
<1>9. ASSUME NEW q \in Seq(SentIds), q # <<>>, NEW n \in DrainCounts(q), Take(o, q, n)
      PROVE  op' \in [Ops -> OpType]
  <2>1. SubSeq(q, 1, n) \in Seq(SentIds \cup {PromptMessage})
    BY <1>9, Taken, InboxTyped
  <2> QED
    BY <1>0, <1>9, <2>1, FieldSet DEF Take, OpPcs
<1>10. CASE GetSteering(o) \/ GetFollowUp(o)
  BY <1>0, <1>9, <1>10 DEF GetSteering, GetFollowUp
<1>11. CASE FlushDone(o)
  <2>1. CASE op[o].ret = "agent_end"
    <3>1. op' = [op EXCEPT ![o].pc = "agent_end", ![o].ended = TRUE]
      BY <1>11, <2>1 DEF FlushDone
    <3> QED
      BY <1>0, <3>1, FieldSet DEF OpPcs
  <2>2. CASE op[o].ret # "agent_end"
    BY <1>0, <1>11, <2>2, GoesTyped DEF FlushDone, OpPcs
  <2> QED
    BY <2>1, <2>2
<1>12. CASE Notify(o)
  BY <1>0, <1>12, GoesTyped DEF Notify, OpPcs
<1>13. CASE Cleanup(o) \/ StructuralEnd(o)
  BY <1>0, <1>13, GoesTyped DEF Cleanup, StructuralEnd
<1>14. CASE SavePointThrows(o)
  <2>1. CASE op[o].failing
    BY <1>0, <1>14, <2>1, FieldSet DEF SavePointThrows, OpPcs
  <2>2. CASE ~op[o].failing
    BY <1>0, <1>14, <2>2, FieldSet DEF SavePointThrows, OpPcs
  <2> QED
    BY <2>1, <2>2
<1> QED
  BY <1>1, <1>2, <1>3, <1>4, <1>5, <1>6, <1>7, <1>8, <1>10, <1>11, <1>12, <1>13, <1>14
  DEF OpStep

(* So does every failure. *)
LEMMA OpThrowsTyped ==
  ASSUME TypeOK, NEW o \in Ops, OpThrows(o)
  PROVE  op' \in [Ops -> OpType]
<1>0. op \in [Ops -> OpType] /\ op[o] \in OpType /\ <<>> \in Seq(SentIds \cup {PromptMessage})
  BY SMTT(30) DEF TypeOK
<1>1. CASE SnapshotThrows(o) \/ TakeThrows(o) \/ BeforeStartThrows(o)
  BY <1>0, <1>1, GoesTyped DEF SnapshotThrows, TakeThrows, BeforeStartThrows, Rejected
<1>2. CASE InjectThrows(o) \/ DrainThrows(o)
  <2>1. op' = [op EXCEPT ![o].pc = "failure", ![o].failing = TRUE, ![o].inbox = <<>>]
    BY <1>2 DEF InjectThrows, DrainThrows
  <2> QED
    BY <1>0, <2>1, FieldSet DEF OpPcs
<1>3. CASE MessagesThrow(o) \/ PrepareThrows(o) \/ NotifyThrows(o)
  BY <1>0, <1>3, GoesTyped DEF MessagesThrow, PrepareThrows, NotifyThrows
<1>4. CASE TurnEndThrows(o)
  BY <1>0, <1>4, FieldSet DEF TurnEndThrows, OpPcs
<1>5. CASE SavePointThrows(o)
  <2>1. CASE op[o].failing
    BY <1>0, <1>5, <2>1, FieldSet DEF SavePointThrows, OpPcs
  <2>2. CASE ~op[o].failing
    BY <1>0, <1>5, <2>2, FieldSet DEF SavePointThrows, OpPcs
  <2> QED
    BY <2>1, <2>2
<1>6. CASE FlushThrows(o)
  <2>1. CASE op[o].ret = "cleanup"
    BY <1>0, <1>6, <2>1, FieldSet DEF FlushThrows, OpPcs
  <2>2. CASE op[o].ret # "cleanup" /\ op[o].failing
    BY <1>0, <1>6, <2>2, FieldSet DEF FlushThrows, OpPcs
  <2>3. CASE op[o].ret # "cleanup" /\ ~op[o].failing
    BY <1>0, <1>6, <2>3, FieldSet DEF FlushThrows, OpPcs
  <2> QED
    BY <2>1, <2>2, <2>3
<1> QED
  BY <1>1, <1>2, <1>3, <1>4, <1>5, <1>6 DEF OpThrows

(* And every start. *)
LEMMA StartTyped ==
  ASSUME TypeOK, NEW o \in Ops, Start(o)
  PROVE  op' \in [Ops -> OpType]
<1>0. op \in [Ops -> OpType] /\ op[o] \in OpType /\ completionMode \in Modes
  BY DEF TypeOK
<1>1. ASSUME NEW mode, Prompt(o, mode) PROVE op' \in [Ops -> OpType]
  BY <1>0, <1>1, FieldSet DEF Prompt, OpPcs
<1>2. ASSUME NEW kind \in {"compact", "navigate"}, Structural(o, kind)
      PROVE  op' \in [Ops -> OpType]
  BY <1>0, <1>2, FieldSet DEF Structural, OpPcs
<1> QED
  BY <1>1, <1>2 DEF Start

(* Only the operations and the count of faults change in most steps. *)
LEMMA OnlyOp ==
  ASSUME TypeOK, op' \in [Ops -> OpType], UNCHANGED <<runStepVars, session>>, faults' \in Nat
  PROVE  TypeOK'
<1>1. sent' = sent /\ accepted' = accepted
  BY DEF runStepVars, inputVars
<1>2. SentIds' = SentIds /\ OpType' = OpType
  BY <1>1 DEF SentIds, OpType
<1> QED
  BY <1>1, <1>2 DEF TypeOK, runStepVars, runVars, queueVars, inputVars, session

(* The types of the variables an operation may change beside itself. *)
LEMMA OpAndRun ==
  ASSUME TypeOK, op' \in [Ops -> OpType], faults' \in Nat,
         UNCHANGED <<signalled, generation, inputVars, abortCall>>,
         phase' \in {"idle", "turn", "compaction", "branch_summary"},
         controller' \in NoneOrOp, runPromise' \in NoneOrOp, completionMode' \in Modes,
         steerQueue' \in Seq(SentIds), followUpQueue' \in Seq(SentIds),
         nextTurnQueue' \in Seq(SentIds), pendingWrites' \in Seq(1..accepted),
         delivered' \in Seq(SentIds), written' \in Seq(1..accepted)
  PROVE  TypeOK'
<1>1. sent' = sent /\ accepted' = accepted /\ cleared' = cleared
  BY DEF inputVars
<1>2. SentIds' = SentIds /\ OpType' = OpType
  BY <1>1 DEF SentIds, OpType
<1> QED
  BY <1>1, <1>2 DEF TypeOK

(* What goes back to a queue when the subscribers of queue_update fail: only
   messages that came from one. *)
HeldInv(r) ==
  /\ r.pc = "taken" => SubSeq(r.inbox, 1, Len(r.inbox) - 1) \in Seq(SentIds)
  /\ r.pc \in {"steered", "followed"} => r.inbox \in Seq(SentIds)

TypeInv == TypeOK /\ \A o \in Ops : HeldInv(op[o])

(* TypeOK is preserved by the steps of an operation. *)
LEMMA OpStepTypeOK ==
  ASSUME TypeOK, NEW o \in Ops, HeldInv(op[o]), Start(o) \/ OpStep(o) \/ OpThrows(o)
  PROVE  TypeOK'
<1>0. op' \in [Ops -> OpType]
  BY OpStepTyped, OpThrowsTyped, StartTyped
<1>1. \A kind : Fault(kind) => faults' \in Nat
  BY SMTT(30) DEF Fault, TypeOK
<1>2. /\ faults \in Nat /\ noneOp \in NoneOrOp /\ o \in NoneOrOp
      /\ op[o] \in OpType /\ op[o].original \in Modes
      /\ op[o].inbox \in Seq(SentIds \cup {PromptMessage})
      /\ op[o].kind \in {"prompt", "compact", "navigate"}
  BY Fields DEF TypeOK, NoneOrOp
<1> USE <1>0, <1>1, <1>2
<1>3. CASE \/ TakeAnnounced(o) \/ Injected(o) \/ Request(o) \/ Messages(o)
           \/ TurnEnd(o) \/ SavePoint(o) \/ Prepare(o) \/ NothingQueued(o)
           \/ Drained(o) \/ Notify(o)
  BY <1>3, OnlyOp DEF TakeAnnounced, Injected, Request, Messages, TurnEnd, SavePoint,
     Prepare, NothingQueued, Drained, Notify, runStepVars
<1>4. CASE \/ MessagesThrow(o) \/ TurnEndThrows(o) \/ SavePointThrows(o)
           \/ PrepareThrows(o) \/ FlushThrows(o) \/ NotifyThrows(o)
  BY <1>4, OnlyOp DEF MessagesThrow, TurnEndThrows, SavePointThrows, PrepareThrows,
     FlushThrows, NotifyThrows
<1>5. ASSUME NEW mode \in {"none", "explicit"}, Prompt(o, mode) PROVE TypeOK'
  BY <1>5, OpAndRun DEF Prompt, TypeOK, Modes, queueVars, session
<1>6. ASSUME NEW kind \in {"compact", "navigate"}, Structural(o, kind) PROVE TypeOK'
  BY <1>6, OpAndRun DEF Structural, TypeOK, PhaseOf, queueVars, session
<1>7. CASE SnapshotThrows(o) \/ BeforeStartThrows(o)
  BY <1>7, OpAndRun 
  DEF SnapshotThrows, BeforeStartThrows, Rejected, TypeOK, queueVars, session
<1>8. CASE TakeNextTurn(o)
  BY <1>8, OpAndRun, SMTT(30) DEF TakeNextTurn, TypeOK, runVars, session
<1>9. CASE StartLoop(o)
  BY <1>9, OpAndRun DEF StartLoop, TypeOK, queueVars, session
<1>10. CASE Cleanup(o)
  BY <1>10, OpAndRun DEF Cleanup, TypeOK, queueVars, session
<1>11. CASE StructuralEnd(o)
  BY <1>11, OpAndRun DEF StructuralEnd, TypeOK, queueVars, session
<1>12. CASE FlushDone(o)
  BY <1>12, OpAndRun DEF FlushDone, TypeOK, queueVars, session
<1>13. ASSUME op[o].inbox # <<>>
       PROVE  /\ Appended(Head(op[o].inbox)) \in Seq(SentIds)
  <2>1. Head(op[o].inbox) \in SentIds \cup {PromptMessage} /\ delivered \in Seq(SentIds)
    BY <1>13, SMTT(30) DEF TypeOK
  <2> QED
    BY <2>1, SMTT(30) DEF Appended
<1>14. CASE Inject(o) \/ InjectThrows(o)
  <2>1. delivered' \in Seq(SentIds)
    BY <1>13, <1>14 DEF Inject, InjectThrows, TypeOK
  <2>2. UNCHANGED <<runStepVars, written>> /\ faults' \in Nat
    BY <1>14 DEF Inject, InjectThrows
  <2> QED
    BY <2>1, <2>2, OpAndRun DEF TypeOK, runStepVars, runVars, queueVars
<1>15. CASE GetSteering(o)
  <2>1. PICK n \in DrainCounts(steerQueue) :
          steerQueue' = SubSeq(steerQueue, n + 1, Len(steerQueue))
    BY <1>15 DEF GetSteering
  <2>2. steerQueue' \in Seq(SentIds)
    BY <1>15, <2>1, Taken DEF GetSteering, TypeOK
  <2> QED
    BY <1>15, <2>2, OpAndRun DEF GetSteering, TypeOK, runVars, session
<1>16. CASE GetFollowUp(o)
  <2>1. PICK n \in DrainCounts(followUpQueue) :
          followUpQueue' = SubSeq(followUpQueue, n + 1, Len(followUpQueue))
    BY <1>16 DEF GetFollowUp
  <2>2. followUpQueue' \in Seq(SentIds)
    BY <1>16, <2>1, Taken DEF GetFollowUp, TypeOK
  <2> QED
    BY <1>16, <2>2, OpAndRun DEF GetFollowUp, TypeOK, runVars, session
<1>17. CASE FlushAppend(o)
  <2>1. written' \in Seq(1..accepted)
    <3>1. pendingWrites \in Seq(1..accepted) /\ pendingWrites # <<>> /\ written \in Seq(1..accepted)
      BY <1>17 DEF FlushAppend, TypeOK
    <3>2. Head(pendingWrites) \in 1..accepted
      BY <3>1, HeadTail
    <3> QED
      BY <1>17, <3>1, <3>2, AppendParts DEF FlushAppend
  <2> QED
    BY <1>17, <2>1, OpAndRun DEF FlushAppend, TypeOK, runStepVars, runVars, queueVars
<1>18. CASE FlushShift(o)
  <2>1. pendingWrites' \in Seq(1..accepted)
    <3>1. pendingWrites \in Seq(1..accepted)
      BY DEF TypeOK
    <3>2. pendingWrites # <<>> => Tail(pendingWrites) \in Seq(1..accepted)
      BY <3>1, HeadTail
    <3> QED
      BY <1>18, <3>2, EmptySeq DEF FlushShift
  <2> QED
    BY <1>18, <2>1, OpAndRun DEF FlushShift, TypeOK, runVars, queueVars, session
<1>19. CASE TakeThrows(o)
  <2>1. nextTurnQueue' \in Seq(SentIds)
    <3>1. SubSeq(op[o].inbox, 1, Len(op[o].inbox) - 1) \in Seq(SentIds)
      BY <1>19 DEF TakeThrows, HeldInv, At
    <3>2. nextTurnQueue \in Seq(SentIds)
      BY DEF TypeOK
    <3> QED
      BY <1>19, <3>1, <3>2, ConcatParts DEF TakeThrows
  <2> QED
    BY <1>19, <2>1, OpAndRun DEF TakeThrows, Rejected, TypeOK, session
<1>20. CASE DrainThrows(o)
  <2>1. steerQueue' \in Seq(SentIds) /\ followUpQueue' \in Seq(SentIds)
    <3>1. op[o].inbox \in Seq(SentIds)
      BY <1>20 DEF DrainThrows, HeldInv
    <3>2. steerQueue \in Seq(SentIds) /\ followUpQueue \in Seq(SentIds)
      BY DEF TypeOK
    <3>3. /\ op[o].inbox \o steerQueue \in Seq(SentIds)
          /\ op[o].inbox \o followUpQueue \in Seq(SentIds)
      BY <3>1, <3>2, ConcatParts
    <3> QED
      BY <1>20, <3>2, <3>3 DEF DrainThrows
  <2> QED
    BY <1>20, <2>1, OpAndRun DEF DrainThrows, TypeOK, runVars, session
<1>21. CASE SavePointThrows(o)
  BY <1>21, OnlyOp DEF SavePointThrows
<1> QED
  BY <1>3, <1>4, <1>5, <1>6, <1>7, <1>8, <1>9, <1>10, <1>11, <1>12, <1>14, <1>15, <1>16,
     <1>17, <1>18, <1>19, <1>20, <1>21 DEF Start, OpStep, OpThrows

(* A step of an operation holds only queued messages for the queues. *)
LEMMA OpStepHeld ==
  ASSUME TypeOK, NEW o \in Ops, HeldInv(op[o]), Start(o) \/ OpStep(o) \/ OpThrows(o)
  PROVE  HeldInv(op'[o])
<1>0. /\ op \in [Ops -> OpType] /\ op[o] \in OpType
      /\ op[o].ret \in {"save_point", "prepare", "agent_end", "cleanup"}
  BY Fields DEF TypeOK
<1> USE <1>0
<1>1. CASE TakeNextTurn(o)
  <2>1. nextTurnQueue \in Seq(SentIds) /\ op'[o].inbox = Append(nextTurnQueue, PromptMessage)
    BY <1>1 DEF TakeNextTurn, TypeOK, OpType
  <2>2. SubSeq(op'[o].inbox, 1, Len(op'[o].inbox) - 1) = nextTurnQueue
    <3>1. /\ Len(op'[o].inbox) = Len(nextTurnQueue) + 1 /\ Len(nextTurnQueue) \in Nat
          /\ \A i \in 1..Len(nextTurnQueue) : op'[o].inbox[i] = nextTurnQueue[i]
      BY <2>1, SMTT(30)
    <3> DEFINE s == SubSeq(op'[o].inbox, 1, Len(nextTurnQueue))
    <3>2. /\ op'[o].inbox \in Seq(SentIds \cup {PromptMessage})
          /\ nextTurnQueue \in Seq(SentIds \cup {PromptMessage})
      BY <2>1, SMTT(30)
    <3>3. /\ s \in Seq(SentIds \cup {PromptMessage}) /\ Len(s) = Len(nextTurnQueue)
          /\ \A i \in 1..Len(s) : s[i] = nextTurnQueue[i]
      BY <3>1, <3>2, SubSeqParts, SMTT(30)
    <3>4. s = nextTurnQueue
      BY <3>2, <3>3, SameSeq
    <3> QED
      BY <3>1, <3>4, SMTT(30)
  <2>3. op'[o].pc \notin {"steered", "followed"}
    BY <1>1 DEF TakeNextTurn, OpType
  <2> QED
    BY <2>1, <2>2, <2>3 DEF HeldInv
<1>2. ASSUME NEW q \in Seq(SentIds), q # <<>>, NEW n \in DrainCounts(q), Take(o, q, n)
      PROVE  HeldInv(op'[o])
  <2>1. SubSeq(q, 1, n) \in Seq(SentIds) /\ op'[o].inbox = SubSeq(q, 1, n) /\ op'[o].pc # "taken"
    BY <1>2, Taken DEF Take, OpType
  <2> QED
    BY <2>1 DEF HeldInv
<1>3. CASE GetSteering(o) \/ GetFollowUp(o)
  BY <1>2, <1>3 DEF GetSteering, GetFollowUp, TypeOK
<1>4. ASSUME op'[o].pc \notin {"taken", "steered", "followed"} PROVE HeldInv(op'[o])
  BY <1>4 DEF HeldInv
<1>5. CASE \/ TakeAnnounced(o) \/ StartLoop(o) \/ Inject(o) \/ Injected(o) \/ Messages(o)
           \/ TurnEnd(o) \/ SavePoint(o) \/ Prepare(o) \/ NothingQueued(o) \/ Drained(o)
  BY <1>4, <1>5, SMTT(30)
  DEF TakeAnnounced, StartLoop, Inject, Injected, Messages, TurnEnd, SavePoint, Prepare,
      NothingQueued, Drained, AfterEmptyPoll, Go, GoFlush, At, OpType
<1>6. CASE Request(o)
  BY <1>4, <1>6, SMTT(30) DEF Request, OpType
<1>7. CASE FlushAppend(o) \/ FlushShift(o) \/ FlushDone(o) \/ Notify(o)
  BY <1>4, <1>7, SMTT(30) DEF FlushAppend, FlushShift, FlushDone, Notify, Go, GoFlush, OpType
<1>8. CASE InjectThrows(o) \/ MessagesThrow(o) \/ TurnEndThrows(o) \/ DrainThrows(o)
  BY <1>4, <1>8, SMTT(30)
     DEF InjectThrows, MessagesThrow, TurnEndThrows, DrainThrows, Thrown, OpType
<1>11. Done(o) => op'[o].pc = "done"
  BY ZenonT(40) DEF Done, Unstarted
<1>12. CASE \/ Cleanup(o) \/ StructuralEnd(o) \/ SnapshotThrows(o) \/ TakeThrows(o)
            \/ BeforeStartThrows(o)
  BY <1>4, <1>11, <1>12
  DEF Cleanup, StructuralEnd, SnapshotThrows, TakeThrows, BeforeStartThrows, Rejected
<1>9. CASE SavePointThrows(o) \/ PrepareThrows(o) \/ FlushThrows(o) \/ NotifyThrows(o)
  BY <1>4, <1>9, SMTT(30)
     DEF SavePointThrows, PrepareThrows, FlushThrows, NotifyThrows, Thrown, OpType
<1>10. CASE Start(o)
  BY <1>4, <1>10, SMTT(30) DEF Start, Prompt, Structural, OpType
<1> QED
  BY <1>1, <1>3, <1>5, <1>6, <1>7, <1>8, <1>9, <1>10, <1>12 DEF OpStep, OpThrows

(* A step of one operation leaves the others alone. *)
LEMMA OthersStay ==
  ASSUME TypeOK, NEW o \in Ops, Start(o) \/ OpStep(o) \/ OpThrows(o), NEW q \in Ops, q # o
  PROVE  op'[q] = op[q]
<1>1. op \in [Ops -> OpType]
  BY DEF TypeOK
<1> USE <1>1
<1>2. CASE Start(o)
  BY <1>2 DEF Start, Prompt, Structural
<1>3. CASE OpStep(o)
  BY <1>3
  DEF OpStep, TakeNextTurn, TakeAnnounced, StartLoop, Inject, Injected, Request, Messages,
      TurnEnd, SavePoint, Prepare, NothingQueued, GetSteering, GetFollowUp, Take, Drained,
      FlushAppend, FlushShift, FlushDone, Notify, Cleanup, StructuralEnd, SavePointThrows,
      Go, GoFlush, Done
<1>4. CASE OpThrows(o)
  BY <1>4
  DEF OpThrows, SnapshotThrows, TakeThrows, BeforeStartThrows, InjectThrows, MessagesThrow,
      TurnEndThrows, SavePointThrows, PrepareThrows, DrainThrows, FlushThrows, NotifyThrows,
      Rejected, Done, Thrown
<1> QED
  BY <1>2, <1>3, <1>4

(* The steps of an operation accept no message and no write. *)
LEMMA OpStepInputs ==
  ASSUME NEW o \in Ops, Start(o) \/ OpStep(o) \/ OpThrows(o)
  PROVE  UNCHANGED <<inputVars, signalled, generation, abortCall>>
<1>1. CASE Start(o)
  BY <1>1 DEF Start, Prompt, Structural, queueVars
<1>2. CASE OpStep(o)
  BY <1>2
  DEF OpStep, TakeNextTurn, TakeAnnounced, StartLoop, Inject, Injected, Request, Messages,
      TurnEnd, SavePoint, Prepare, NothingQueued, GetSteering, GetFollowUp, Drained,
      FlushAppend, FlushShift, FlushDone, Notify, Cleanup, StructuralEnd, SavePointThrows,
      runStepVars, runVars, queueVars
<1>3. CASE OpThrows(o)
  BY <1>3
  DEF OpThrows, SnapshotThrows, TakeThrows, BeforeStartThrows, InjectThrows, MessagesThrow,
      TurnEndThrows, SavePointThrows, PrepareThrows, DrainThrows, FlushThrows, NotifyThrows,
      runStepVars, runVars, queueVars
<1> QED
  BY <1>1, <1>2, <1>3

(* A new message is one more number; all types only grow. *)
LEMMA Grows ==
  ASSUME TypeInv, NEW name \in {"steer", "followUp", "nextTurn"}, Send(name),
         UNCHANGED <<op, accepted, cleared, delivered, written, pendingWrites>>
  PROVE  /\ sent' \in Seq({"steer", "followUp", "nextTurn"})
         /\ Len(sent) \in Nat /\ Len(sent') = Len(sent) + 1
         /\ SentIds \subseteq SentIds' /\ Len(sent) + 1 \in SentIds'
         /\ Seq(SentIds) \subseteq Seq(SentIds')
         /\ op' \in [Ops -> OpType']
         /\ \A o \in Ops : HeldInv(op[o])'
<1>1. /\ sent \in Seq({"steer", "followUp", "nextTurn"})
      /\ op \in [Ops -> OpType] /\ \A o \in Ops : HeldInv(op[o])
  BY DEF TypeInv, TypeOK
<1>2. /\ sent' \in Seq({"steer", "followUp", "nextTurn"})
      /\ Len(sent) \in Nat /\ Len(sent') = Len(sent) + 1
  BY <1>1, SMTT(30) DEF Send
<1>3. SentIds \subseteq SentIds' /\ Len(sent) + 1 \in SentIds'
  BY <1>2, SMTT(30) DEF SentIds
<1>4. /\ Seq(SentIds) \subseteq Seq(SentIds')
      /\ Seq(SentIds \cup {PromptMessage}) \subseteq Seq(SentIds' \cup {PromptMessage})
  BY <1>3, SeqMonotonic
<1>5. OpType \subseteq OpType'
  BY <1>4 DEF OpType
<1>6. op' = op
  OBVIOUS
<1>7. ASSUME NEW o \in Ops PROVE HeldInv(op[o])'
  <2>1. HeldInv(op[o]) /\ op'[o] = op[o]
    BY <1>1, <1>6
  <2> QED
    BY <1>4, <2>1 DEF HeldInv
<1> QED
  BY <1>1, <1>2, <1>3, <1>4, <1>5, <1>6, <1>7

(* TypeInv is preserved by what the application calls. *)
LEMMA OutsideTypeInv ==
  ASSUME TypeInv, Steer \/ FollowUp \/ NextTurn \/ SessionWrite \/ Abort \/ AbortStep
  PROVE  TypeInv'
<1> USE DEF TypeInv
<1>1. CASE Steer \/ FollowUp \/ NextTurn
  <2>1. /\ steerQueue \in Seq(SentIds) /\ followUpQueue \in Seq(SentIds)
        /\ nextTurnQueue \in Seq(SentIds) /\ delivered \in Seq(SentIds)
        /\ cleared \subseteq SentIds
    BY DEF TypeOK
  <2>2. /\ UNCHANGED <<op, accepted, cleared, delivered, written, pendingWrites, runVars,
                       abortCall, faults, generation>>
        /\ \E name \in {"steer", "followUp", "nextTurn"} : Send(name)
    BY <1>1 DEF Steer, FollowUp, NextTurn, outsideVars, session
  <2>3. /\ sent' \in Seq({"steer", "followUp", "nextTurn"})
        /\ SentIds \subseteq SentIds' /\ Len(sent) + 1 \in SentIds'
        /\ Seq(SentIds) \subseteq Seq(SentIds')
        /\ op' \in [Ops -> OpType']
        /\ \A o \in Ops : HeldInv(op[o])'
    BY <2>2, Grows
  <2>4. \A q \in Seq(SentIds') : Append(q, Len(sent) + 1) \in Seq(SentIds')
    BY <2>3, AppendParts
  <2>5. /\ steerQueue' \in Seq(SentIds') /\ followUpQueue' \in Seq(SentIds')
        /\ nextTurnQueue' \in Seq(SentIds') /\ delivered' \in Seq(SentIds')
        /\ cleared' \subseteq SentIds'
    BY <1>1, <2>1, <2>2, <2>3, <2>4 DEF Steer, FollowUp, NextTurn
  <2> QED
    BY <2>2, <2>3, <2>5 DEF TypeOK, runVars, AbortType, NoneOrOp
<1>2. ASSUME UNCHANGED <<op, sent>>
      PROVE  OpType' = OpType /\ SentIds' = SentIds /\ \A o \in Ops : HeldInv(op[o])'
  BY <1>2 DEF OpType, SentIds, HeldInv
<1>3. CASE SessionWrite
  <2>1. /\ accepted' = accepted + 1 /\ accepted \in Nat /\ accepted' \in Nat
        /\ UNCHANGED <<op, sent, cleared, delivered, runVars, abortCall, faults, queueVars>>
    BY <1>3, SMTT(30) DEF SessionWrite, outsideVars, TypeOK
  <2>2. 1..accepted \subseteq 1..accepted' /\ accepted + 1 \in 1..accepted'
    BY <2>1, SMTT(30)
  <2>3. /\ Seq(1..accepted) \subseteq Seq(1..accepted')
        /\ \A s \in Seq(1..accepted') : Append(s, accepted + 1) \in Seq(1..accepted')
    BY <2>2, SeqMonotonic, AppendParts
  <2>4. written' \in Seq(1..accepted') /\ pendingWrites' \in Seq(1..accepted')
    BY <1>3, <2>3 DEF SessionWrite, TypeOK
  <2> QED
    BY <1>2, <2>1, <2>4 DEF TypeOK, runVars, queueVars
<1>4. CASE Abort
  <2>1. UNCHANGED <<op, sent>>
    BY <1>4 DEF Abort
  <2>2. steerQueue \in Seq(SentIds) /\ followUpQueue \in Seq(SentIds) /\ cleared \subseteq SentIds
    BY DEF TypeOK
  <2>3. Range(steerQueue) \subseteq SentIds /\ Range(followUpQueue) \subseteq SentIds
    BY <2>2, RangeOfSeq DEF Range
  <2>4. cleared' \subseteq SentIds'
    BY <1>4, <1>2, <2>1, <2>2, <2>3 DEF Abort
  <2>5. abortCall' \in AbortType
    <3>1. /\ abortCall \in AbortType
          /\ abortCall' = [abortCall EXCEPT !.pc = "announced", !.calls = abortCall.calls + 1]
      BY <1>4 DEF Abort, TypeOK
    <3>2. \A n \in Nat : [abortCall EXCEPT !.pc = "announced", !.calls = n] \in AbortType
      BY <3>1 DEF AbortType
    <3>3. abortCall.calls + 1 \in Nat
      BY <3>1, SMTT(30) DEF AbortType
    <3> QED
      BY <3>1, <3>2, <3>3
  <2>6. signalled' \subseteq Ops
    BY <1>4 DEF Abort, TypeOK, NoneOrOp
  <2>7. /\ steerQueue' \in Seq(SentIds) /\ followUpQueue' \in Seq(SentIds)
        /\ generation' \in Nat
    BY <1>4, SMTT(30) DEF Abort, TypeOK
  <2>8. UNCHANGED <<phase, controller, runPromise, completionMode, nextTurnQueue, sent,
                    accepted, pendingWrites, op, delivered, written, faults>>
    BY <1>4 DEF Abort, session
  <2>9. OpType' = OpType /\ SentIds' = SentIds /\ \A o \in Ops : HeldInv(op[o])'
    BY <1>2, <2>1
  <2> QED
    BY <2>4, <2>5, <2>6, <2>7, <2>8, <2>9 DEF TypeOK, AbortType, NoneOrOp
<1>5. CASE AbortStep
  <2>1. abortCall' \in AbortType
    <3>1. abortCall \in AbortType /\ runPromise \in NoneOrOp /\ noneOp \in NoneOrOp
      BY DEF TypeOK, NoneOrOp
    <3> QED
      BY <1>5, <3>1 DEF AbortStep, AbortWaits, AbortReturns, AbortType
  <2>2. UNCHANGED <<runVars, queueVars, inputVars, pendingWrites, op, session, faults>>
    BY <1>5 DEF AbortStep, AbortWaits, AbortReturns
  <2>3. OpType' = OpType /\ SentIds' = SentIds /\ \A o \in Ops : HeldInv(op[o])'
    BY <1>2, <2>2 DEF inputVars
  <2> QED
    BY <2>1, <2>2, <2>3
    DEF TypeOK, runVars, queueVars, inputVars, session, AbortType, NoneOrOp
<1> QED
  BY <1>1, <1>3, <1>4, <1>5

(* TypeInv is inductive. *)
LEMMA TypeInvInit ==
  Init => TypeInv
<1> SUFFICES ASSUME Init PROVE TypeInv
  OBVIOUS
<1>1. \A S : <<>> \in Seq(S)
  BY EmptySeq
<1>2. op \in [Ops -> OpType] /\ \A o \in Ops : op[o].pc = "unstarted"
  BY UnstartedType DEF Init, Unstarted
<1>3. TypeOK
  BY <1>1, <1>2, HarnessAssumption DEF Init, TypeOK, NoneOrOp, Modes, AbortType
<1> QED
  BY <1>2, <1>3 DEF TypeInv, HeldInv

(* Every step of the harness keeps the types. *)
LEMMA TypeInvStep ==
  TypeInv /\ [Next]_vars => TypeInv'
<1> SUFFICES ASSUME TypeInv, [Next]_vars PROVE TypeInv'
  OBVIOUS
<1>1. ASSUME NEW o \in Ops, Start(o) \/ OpStep(o) \/ OpThrows(o) PROVE TypeInv'
  <2>1. TypeOK' /\ HeldInv(op'[o])
    BY <1>1, OpStepTypeOK, OpStepHeld DEF TypeInv
  <2>2. SentIds' = SentIds
    BY <1>1, OpStepInputs DEF inputVars, SentIds
  <2>3. ASSUME NEW q \in Ops PROVE HeldInv(op[q])'
    <3>1. HeldInv(op'[q])
      BY <1>1, <2>1, OthersStay DEF TypeInv
    <3> QED
      BY <2>2, <3>1 DEF HeldInv
  <2> QED
    BY <2>1, <2>3 DEF TypeInv
<1>2. CASE UNCHANGED vars
  BY <1>2
  DEF vars, runVars, queueVars, inputVars, session, TypeInv, TypeOK, HeldInv, SentIds, OpType
<1> QED
  BY <1>1, <1>2, OutsideTypeInv DEF Next

(* Every variable keeps its type: each step leaves the operations at a point
   from which they can go on. *)
THEOREM TypeCorrect == Spec => []TypeOK
<1>1. TypeInv => TypeOK
  BY DEF TypeInv
<1> QED
  BY <1>1, TypeInvInit, TypeInvStep, PTL DEF Spec

-----------------------------------------------------------------------------
(* The phase *)

(* A prompt in flight, and the part of it before there is a controller. *)
Runs(o) == op[o].pc \notin {"unstarted", "work", "done"}
Early == {"snapshot", "taken", "before"}

(* The end of executeTurn, the flush before it included. *)
Closing(r) == r.pc = "cleanup" \/ (r.pc \in {"flush", "appended"} /\ r.ret = "cleanup")

(* What a prompt in flight knows of itself. *)
RunInv(r) ==
  /\ r.kind = "prompt" /\ r.original = "base"
  /\ r.pc \in {"agent_end", "settled"} => r.ended
  /\ Closing(r) => r.ended \/ r.error

(* No operation is under way, and nothing is left of one. *)
AtRest == phase = "idle" /\ controller = noneOp /\ runPromise = noneOp /\ completionMode = "base"

(* At most one operation is in flight, and phase, controller, run promise and
   completion mode are what its position says. *)
PhaseInv ==
  /\ \A o, q \in Ops : InFlight(o) /\ InFlight(q) => o = q
  /\ \A o \in Ops : op[o].pc = "unstarted" => op[o] = Unstarted
  /\ \A o \in Ops : op[o].pc = "work" =>
       /\ op[o].kind # "prompt" /\ phase = PhaseOf(op[o].kind) /\ ~op[o].ended
       /\ controller = noneOp /\ runPromise = noneOp /\ completionMode = "base"
  /\ \A o \in Ops : Runs(o) =>
       /\ RunInv(op[o])
       /\ runPromise = o
       /\ controller = IF op[o].pc \in Early THEN noneOp ELSE o
       /\ phase = IF op[o].ended THEN "idle" ELSE "turn"
  /\ (\A o \in Ops : ~InFlight(o)) => AtRest

(* A step of a prompt that goes on. *)
RunGoes(o) ==
  /\ Runs(o) /\ op'[o].pc \notin {"unstarted", "work", "done"}
  /\ RunInv(op'[o])
  /\ runPromise' = runPromise
  /\ controller' = IF op'[o].pc \in Early THEN noneOp ELSE o
  /\ phase' = IF op'[o].ended THEN "idle" ELSE "turn"

(* The step with which an operation ends. *)
OpEnds(o) == InFlight(o) /\ op'[o].pc = "done" /\ AtRest'

(* Both keep PhaseInv, and so does what touches no operation. *)
LEMMA PhaseKept ==
  ASSUME PhaseInv, NEW o \in Ops, \A q \in Ops \ {o} : op'[q] = op[q],
         RunGoes(o) \/ OpEnds(o)
  PROVE  PhaseInv'
<1>1. ASSUME NEW q \in Ops, q # o PROVE op'[q] = op[q] /\ ~InFlight(q)
  BY <1>1 DEF PhaseInv, RunGoes, OpEnds, InFlight, Runs
<1>2. CASE RunGoes(o)
  BY <1>1, <1>2 DEF PhaseInv, RunGoes, InFlight, Runs
<1>3. CASE OpEnds(o)
  BY <1>1, <1>3, ZenonT(40) DEF PhaseInv, OpEnds, InFlight, Runs
<1> QED
  BY <1>2, <1>3

(* A step that touches neither the operations nor the phase keeps PhaseInv. *)
LEMMA PhaseStays ==
  ASSUME PhaseInv, UNCHANGED <<op, phase, controller, runPromise, completionMode>>
  PROVE  PhaseInv'
BY DEF PhaseInv, InFlight, Runs, AtRest

(* What PhaseInv says of a prompt in flight. *)
LEMMA RunFacts ==
  ASSUME TypeOK, PhaseInv, NEW o \in Ops, Runs(o)
  PROVE  /\ op \in [Ops -> OpType] /\ op[o] \in OpType
         /\ op[o].ret \in {"save_point", "prepare", "agent_end", "cleanup"}
         /\ RunInv(op[o]) /\ runPromise = o
         /\ controller = IF op[o].pc \in Early THEN noneOp ELSE o
         /\ phase = IF op[o].ended THEN "idle" ELSE "turn"
BY Fields DEF TypeOK, PhaseInv

(* A step after the controller was set that leaves all of this alone. *)
Keeps(o) ==
  /\ op'[o].kind = op[o].kind /\ op'[o].original = op[o].original
  /\ op'[o].ended = op[o].ended
  /\ UNCHANGED <<phase, controller, runPromise>>

(* A step that leaves the record of a prompt but its position is one of RunGoes. *)
LEMMA KeepsGoes ==
  ASSUME TypeOK, PhaseInv, NEW o \in Ops, Runs(o), Keeps(o), op[o].pc \notin Early,
         op'[o].pc \notin Early \cup {"unstarted", "work", "done", "agent_end", "settled"},
         Closing(op'[o]) => op[o].ended \/ op'[o].error
  PROVE  RunGoes(o)
BY RunFacts DEF Keeps, RunGoes, RunInv

(* Every step of a prompt is one or the other. *)
LEMMA RunStepGoes ==
  ASSUME TypeOK, PhaseInv, NEW o \in Ops, Runs(o), OpStep(o)
  PROVE  RunGoes(o) \/ OpEnds(o)
<1>0. /\ op \in [Ops -> OpType] /\ op[o] \in OpType /\ op[o].failing \in BOOLEAN
      /\ op[o].error \in BOOLEAN
      /\ Closing(op[o]) => op[o].ended \/ op[o].error
  BY RunFacts, Fields DEF RunInv
<1> USE RunFacts DEF Runs, RunGoes, At
<1>1. CASE TakeNextTurn(o) \/ TakeAnnounced(o) \/ StartLoop(o)
  BY <1>1, SMTT(30)
     DEF TakeNextTurn, TakeAnnounced, StartLoop, Go, RunInv, Closing, Early, OpType, runVars
<1>2. CASE Inject(o) \/ Injected(o) \/ Messages(o)
  <2>1. /\ Keeps(o) /\ op[o].pc \notin Early
        /\ op'[o].pc \in {"inject", "request", "steer", "turn_end"}
    BY <1>0, <1>2, SMTT(30)
    DEF Inject, Injected, Messages, Go, Keeps, Early, OpType, runStepVars, runVars
  <2> QED
    BY <2>1, KeepsGoes DEF Closing, Early
<1>3. CASE Request(o)
  BY <1>3, SMTT(30) DEF Request, RunInv, Closing, Early, OpType, runStepVars, runVars
<1>4. CASE TurnEnd(o) \/ SavePoint(o) \/ Drained(o)
  BY <1>4, SMTT(30) DEF TurnEnd, SavePoint, Drained, Go, GoFlush, RunInv, Closing, Early, OpType,
     runStepVars, runVars
<1>5. CASE Prepare(o)
  BY <1>5, ZenonT(40) DEF Prepare, RunInv, Closing, Early, OpType, runStepVars, runVars
<1>6. CASE NothingQueued(o)
  BY <1>6, SMTT(30) DEF NothingQueued, AfterEmptyPoll, Go, GoFlush, RunInv, Closing, Early, OpType,
     runStepVars, runVars
<1>7. CASE GetSteering(o) \/ GetFollowUp(o)
  <2>0. PICK q, n : Take(o, q, n)
    BY <1>7 DEF GetSteering, GetFollowUp
  <2>1. /\ op[o].pc \notin Early
        /\ UNCHANGED <<phase, controller, runPromise>>
    BY <1>7 DEF GetSteering, GetFollowUp, Early, runVars
  <2>2. Keeps(o) /\ op'[o].pc \in {"steered", "followed"}
    BY <1>0, <2>0, <2>1 DEF Take, Keeps, OpType
  <2> QED
    BY <2>1, <2>2, KeepsGoes DEF Closing, Early
<1>8. CASE FlushAppend(o) \/ FlushShift(o)
  <2>1. /\ Keeps(o) /\ op[o].pc \in {"flush", "appended"} /\ op'[o].pc \in {"flush", "appended"}
        /\ op'[o].ret = op[o].ret /\ op'[o].error = op[o].error
    BY <1>0, <1>8, SMTT(30) DEF FlushAppend, FlushShift, Go, Keeps, OpType, runStepVars, runVars
  <2> QED
    BY <1>0, <2>1, KeepsGoes DEF Closing, Early
<1>9. CASE FlushDone(o)
  <2>1. CASE op[o].ret = "agent_end"
    <3>1. /\ op' = [op EXCEPT ![o].pc = "agent_end", ![o].ended = TRUE]
          /\ phase' = "idle" /\ op[o].pc = "flush" /\ UNCHANGED <<controller, runPromise>>
      BY <1>9, <2>1 DEF FlushDone
    <3> QED
      BY <3>1, ZenonT(40) DEF RunInv, Closing, Early, OpType
  <2>2. CASE op[o].ret # "agent_end"
    <3>1. /\ op' = [op EXCEPT ![o].pc = op[o].ret]
          /\ op[o].pc = "flush" /\ UNCHANGED <<phase, controller, runPromise>>
      BY <1>9, <2>2 DEF FlushDone, Go
    <3> QED
      BY <2>2, <3>1, ZenonT(40) DEF RunInv, Closing, Early, OpType
  <2> QED
    BY <2>1, <2>2
<1>10. CASE Notify(o)
  BY <1>10, SMTT(30) DEF Notify, Go, GoFlush, RunInv, Closing, Early, OpType, runStepVars, runVars
<1>11. CASE Cleanup(o)
  <2>1. op'[o].pc = "done" /\ InFlight(o)
    BY <1>11 DEF Cleanup, Done, Unstarted, InFlight
  <2> QED
    BY <1>11, <2>1 DEF Cleanup, OpEnds, AtRest, RunInv, Closing
<1>12. CASE SavePointThrows(o)
  <2>1. op[o].pc \notin Early /\ UNCHANGED <<phase, controller, runPromise>>
    BY <1>12 DEF SavePointThrows, Early, runStepVars, runVars
  <2>2. CASE op[o].failing
    <3>1. op' = [op EXCEPT ![o].pc = "flush", ![o].ret = "cleanup", ![o].error = TRUE]
      BY <1>12, <2>2 DEF SavePointThrows
    <3>2. Keeps(o) /\ op'[o].pc = "flush" /\ op'[o].error
      BY <1>0, <2>1, <3>1 DEF Keeps, OpType
    <3> QED
      BY <2>1, <3>2, KeepsGoes DEF Early
  <2>3. CASE ~op[o].failing
    <3>1. op' = [op EXCEPT ![o].pc = "failure", ![o].failing = TRUE, ![o].error = FALSE]
      BY <1>12, <2>3 DEF SavePointThrows
    <3>2. Keeps(o) /\ op'[o].pc = "failure"
      BY <1>0, <2>1, <3>1 DEF Keeps, OpType
    <3> QED
      BY <2>1, <3>2, KeepsGoes DEF Closing, Early
  <2> QED
    BY <2>2, <2>3
<1>13. ~StructuralEnd(o)
  BY DEF StructuralEnd
<1> QED
  BY <1>1, <1>2, <1>3, <1>4, <1>5, <1>6, <1>7, <1>8, <1>9, <1>10, <1>11, <1>12, <1>13
  DEF OpStep

(* ... and every failure of one. *)
LEMMA RunThrowsGoes ==
  ASSUME TypeOK, PhaseInv, NEW o \in Ops, Runs(o), OpThrows(o)
  PROVE  RunGoes(o) \/ OpEnds(o)
<1>0. /\ op \in [Ops -> OpType] /\ op[o] \in OpType /\ op[o].failing \in BOOLEAN
      /\ op[o].error \in BOOLEAN
  BY RunFacts, Fields
<1> USE RunFacts DEF Runs, RunGoes, At
<1>1. CASE SnapshotThrows(o) \/ TakeThrows(o) \/ BeforeStartThrows(o)
  <2>1. /\ op[o].pc \in Early /\ Rejected(o) /\ UNCHANGED controller
        /\ op'[o].pc = "done" /\ InFlight(o)
    BY <1>1
    DEF SnapshotThrows, TakeThrows, BeforeStartThrows, Rejected, Done, Unstarted, Early,
       InFlight
  <2> QED
    BY <2>1 DEF Rejected, OpEnds, AtRest, RunInv
<1>2. ASSUME Keeps(o), op[o].pc \notin Early,
             \/ op'[o].pc = "failure"
             \/ op'[o].pc \in {"flush", "cleanup"} /\ op'[o].error
             \/ op'[o].pc = "flush" /\ op'[o].ret = "save_point"
      PROVE  RunGoes(o)
  BY <1>2, KeepsGoes DEF Closing, Early
<1>3. CASE InjectThrows(o)
  BY <1>0, <1>2, <1>3 DEF InjectThrows, Keeps, Early, OpType, runStepVars, runVars
<1>4. CASE DrainThrows(o)
  BY <1>0, <1>2, <1>4 DEF DrainThrows, Keeps, Early, OpType, runVars
<1>5. CASE MessagesThrow(o) \/ PrepareThrows(o) \/ NotifyThrows(o)
  <2>1. /\ Thrown(o) /\ op[o].pc \notin Early
        /\ UNCHANGED <<phase, controller, runPromise>>
    BY <1>5 DEF MessagesThrow, PrepareThrows, NotifyThrows, Early, runStepVars, runVars
  <2> QED
    BY <1>0, <1>2, <2>1 DEF Thrown, Keeps, OpType
<1>6. CASE TurnEndThrows(o)
  BY <1>0, <1>2, <1>6 DEF TurnEndThrows, Keeps, Early, OpType, runStepVars, runVars
<1>7. CASE SavePointThrows(o)
  BY <1>0, <1>2, <1>7 DEF SavePointThrows, Keeps, Early, OpType, runStepVars, runVars
<1>8. CASE FlushThrows(o)
  BY <1>0, <1>2, <1>8, ZenonT(40) DEF FlushThrows, Keeps, Early, OpType, runStepVars, runVars
<1> QED
  BY <1>1, <1>3, <1>4, <1>5, <1>6, <1>7, <1>8 DEF OpThrows

(* PhaseInv is inductive as long as operations do not overlap. *)
LEMMA PhaseInvInit ==
  Init => PhaseInv
BY SMTT(30) DEF Init, PhaseInv, InFlight, Runs, AtRest, Unstarted

(* Every step of the harness keeps PhaseInv when calls do not overlap. *)
LEMMA PhaseInvStep ==
  ASSUME ~Overlap, TypeOK, PhaseInv, [Next]_vars
  PROVE  PhaseInv'
<1>1. ASSUME NEW o \in Ops, Start(o) PROVE PhaseInv'
  <2>0. op \in [Ops -> OpType] /\ op[o] \in OpType
    BY DEF TypeOK
  <2>1. /\ \A q \in Ops : ~InFlight(q)
        /\ At(o, "unstarted") /\ op[o] = Unstarted /\ AtRest
    BY <1>1 DEF Start, Prompt, Structural, Callable, PhaseInv, At
  <2>2. ASSUME NEW q \in Ops, q # o PROVE op'[q] = op[q]
    BY <1>1, <2>2, OthersStay
  <2>3. CASE \E mode \in {"none", "explicit"} : Prompt(o, mode)
    <3>1. /\ op'[o].pc = "snapshot" /\ op'[o].kind = "prompt" /\ op'[o].original = "base"
          /\ op'[o].ended = FALSE /\ op'[o].error = FALSE
      BY <2>0, <2>1, <2>3, SMTT(30) DEF Prompt, Unstarted, AtRest, OpType
    <3>2. phase' = "turn" /\ runPromise' = o /\ controller' = noneOp
      BY <2>1, <2>3 DEF Prompt, AtRest
    <3> QED
      <4>1. RunInv(op'[o]) /\ op'[o].pc \in Early /\ ~op'[o].ended
        BY <3>1 DEF RunInv, Closing, Early
      <4>2. \A q \in Ops \ {o} : op'[q].pc \in {"unstarted", "done"} /\ op'[q] = op[q]
        BY <2>1, <2>2 DEF InFlight
      <4>3. InFlight(o)' /\ Runs(o)' /\ \A q \in Ops \ {o} : ~InFlight(q)' /\ ~Runs(q)'
        BY <3>1, <4>2 DEF InFlight, Runs
      <4>4. \A q \in Ops : op'[q].pc = "unstarted" => op'[q] = Unstarted
        BY <3>1, <4>2 DEF PhaseInv
      <4>5. \A q \in Ops : op'[q].pc # "work"
        BY <3>1, <4>2
      <4> QED
        BY <3>2, <4>1, <4>3, <4>4, <4>5 DEF PhaseInv
  <2>4. ASSUME NEW kind \in {"compact", "navigate"}, Structural(o, kind) PROVE PhaseInv'
    <3>1. op'[o].pc = "work" /\ op'[o].kind = kind /\ op'[o].ended = FALSE
      BY <2>0, <2>1, <2>4, SMTT(30) DEF Structural, Unstarted, OpType
    <3>2. /\ phase' = PhaseOf(kind) /\ controller' = noneOp /\ runPromise' = noneOp
          /\ completionMode' = "base"
      BY <2>1, <2>4 DEF Structural, AtRest
    <3> QED
      BY <2>1, <2>2, <3>1, <3>2, SMTT(30) DEF PhaseInv, InFlight, Runs
  <2> QED
    BY <1>1, <2>3, <2>4 DEF Start
<1>2. ASSUME NEW o \in Ops, OpStep(o) \/ OpThrows(o) PROVE PhaseInv'
  <2>1. CASE Runs(o)
    BY <1>2, <2>1, RunStepGoes, RunThrowsGoes, PhaseKept, OthersStay
  <2>2. CASE ~Runs(o)
    <3>1. StructuralEnd(o)
      BY <1>2, <2>2
      DEF Runs, At, OpStep, OpThrows, TakeNextTurn, TakeAnnounced, StartLoop, Inject, Injected,
          Request, Messages, TurnEnd, SavePoint, Prepare, NothingQueued, GetSteering,
          GetFollowUp, Drained, FlushAppend, FlushShift, FlushDone, Notify, Cleanup,
          SavePointThrows, SnapshotThrows, TakeThrows, BeforeStartThrows, InjectThrows,
          MessagesThrow, TurnEndThrows, PrepareThrows, DrainThrows, FlushThrows, NotifyThrows
    <3>2. OpEnds(o)
      BY <3>1
         DEF StructuralEnd, Done, Unstarted, At, OpEnds, InFlight, AtRest, PhaseInv, TypeOK
    <3> QED
      BY <1>2, <3>2, PhaseKept, OthersStay
  <2> QED
    BY <2>1, <2>2
<1>3. CASE \/ Steer \/ FollowUp \/ NextTurn \/ SessionWrite \/ Abort \/ AbortStep
           \/ UNCHANGED vars
  BY <1>3, PhaseStays
  DEF Steer, FollowUp, NextTurn, SessionWrite, Abort, AbortStep, AbortWaits, AbortReturns,
      outsideVars, runVars, vars
<1> QED
  BY <1>1, <1>2, <1>3 DEF Next

(* As long as the application starts an operation only once the one before has
   been settled, the phase is that of the operation in flight until it has come
   to its end, and nothing of an operation is left behind. *)
THEOREM PhaseTracked == ~Overlap => (Spec => []PhaseTracksOperation)
<1> SUFFICES ASSUME ~Overlap PROVE Spec => []PhaseTracksOperation
  OBVIOUS
<1>1. Init => TypeInv /\ PhaseInv
  BY TypeInvInit, PhaseInvInit
<1>2. TypeInv /\ PhaseInv /\ [Next]_vars => (TypeInv /\ PhaseInv)'
  BY TypeInvStep, PhaseInvStep DEF TypeInv
<1>3. TypeInv /\ PhaseInv => PhaseTracksOperation
  BY DEF TypeInv, PhaseInv, PhaseTracksOperation, InFlight, Runs, RunInv, AtRest, PhaseOf
<1> QED
  BY <1>1, <1>2, <1>3, PTL DEF Spec

-----------------------------------------------------------------------------
(* Session writes *)

(* Where writes move, and who fails: the steps of flushPendingSessionWrites
   apart, an operation leaves the writes alone. *)
LEMMA WritesFrame ==
  ASSUME TypeOK, NEW o \in Ops, Start(o) \/ OpStep(o) \/ OpThrows(o),
         ~FlushAppend(o), ~FlushShift(o)
  PROVE  /\ UNCHANGED <<pendingWrites, written, accepted>>
         /\ op[o].pc # "appended" /\ op'[o].pc # "appended"
<1>0. /\ op \in [Ops -> OpType] /\ op[o] \in OpType
      /\ op[o].ret \in {"save_point", "prepare", "agent_end", "cleanup"}
  BY Fields DEF TypeOK
<1>1. Done(o) => op'[o].pc = "done"
  BY <1>0, ZenonT(40) DEF Done, Unstarted
<1> USE <1>0, <1>1 DEF At, inputVars, session, runStepVars
<1>2. CASE Start(o)
  BY <1>2, SMTT(30) DEF Start, Prompt, Structural, OpType
<1>3. CASE \/ TakeNextTurn(o) \/ TakeAnnounced(o) \/ StartLoop(o) \/ Inject(o) \/ Injected(o)
           \/ Messages(o) \/ TurnEnd(o) \/ SavePoint(o)
  BY <1>3, SMTT(30)
  DEF TakeNextTurn, TakeAnnounced, StartLoop, Inject, Injected, Messages, TurnEnd, SavePoint,
      Go, GoFlush, OpType
<1>4. CASE \/ Request(o) \/ Prepare(o) \/ NothingQueued(o) \/ Drained(o) \/ Notify(o)
  BY <1>4, SMTT(30)
  DEF Request, Prepare, NothingQueued, AfterEmptyPoll, Drained, Notify, Go, GoFlush, OpType
<1>5. CASE GetSteering(o) \/ GetFollowUp(o)
  <2>1. PICK q, n : Take(o, q, n)
    BY <1>5 DEF GetSteering, GetFollowUp
  <2>2. op'[o].pc # "appended"
    BY <2>1 DEF Take, OpType
  <2> QED
    BY <1>5, <2>2 DEF GetSteering, GetFollowUp
<1>6. CASE FlushDone(o) \/ Cleanup(o) \/ StructuralEnd(o)
  BY <1>6, SMTT(30) DEF FlushDone, Cleanup, StructuralEnd, Go, OpType
<1>7. CASE SnapshotThrows(o) \/ TakeThrows(o) \/ BeforeStartThrows(o)
  BY <1>7 DEF SnapshotThrows, TakeThrows, BeforeStartThrows, Rejected
<1>8. CASE InjectThrows(o) \/ DrainThrows(o) \/ TurnEndThrows(o)
  BY <1>8, SMTT(30) DEF InjectThrows, DrainThrows, TurnEndThrows, OpType
<1>9. CASE MessagesThrow(o) \/ PrepareThrows(o) \/ NotifyThrows(o)
  BY <1>9, SMTT(30) DEF MessagesThrow, PrepareThrows, NotifyThrows, Thrown, OpType
<1>10. CASE SavePointThrows(o) \/ FlushThrows(o)
  BY <1>10, SMTT(30) DEF SavePointThrows, FlushThrows, OpType
<1> QED
  BY <1>2, <1>3, <1>4, <1>5, <1>6, <1>7, <1>8, <1>9, <1>10 DEF OpStep, OpThrows

(* A step of an operation counts as a fault when it throws, and only then. *)
LEMMA ThrowsCount ==
  ASSUME NEW o \in Ops
  PROVE  /\ OpThrows(o) => faults' = faults + 1
         /\ Start(o) \/ OpStep(o) => faults' = faults
<1>1. OpThrows(o) => faults' = faults + 1
  BY DEF OpThrows, SnapshotThrows, TakeThrows, BeforeStartThrows, InjectThrows, MessagesThrow,
     TurnEndThrows, SavePointThrows, PrepareThrows, DrainThrows, FlushThrows, NotifyThrows, Fault
<1>2. Start(o) \/ OpStep(o) => faults' = faults
  BY DEF Start, Prompt, Structural, OpStep, TakeNextTurn, TakeAnnounced, StartLoop, Inject,
     Injected, Request, Messages, TurnEnd, SavePoint, Prepare, NothingQueued, GetSteering,
     GetFollowUp, Drained, FlushAppend, FlushShift, FlushDone, Notify, Cleanup, StructuralEnd,
     SavePointThrows
<1> QED
  BY <1>1, <1>2

(* Only a failure makes an operation end with an error. *)
LEMMA ErrorsAreFaults ==
  ASSUME TypeOK, NEW o \in Ops, Start(o) \/ OpStep(o), op'[o].error
  PROVE  op[o].error
<1>0. /\ op \in [Ops -> OpType] /\ op[o] \in OpType
  BY DEF TypeOK
<1>1. Done(o) => op'[o].error = FALSE
  BY <1>0 DEF Done, Unstarted
<1> USE <1>0, <1>1
<1>2. CASE Start(o)
  BY <1>2, SMTT(30) DEF Start, Prompt, Structural, OpType
<1>3. CASE TakeNextTurn(o) \/ TakeAnnounced(o) \/ StartLoop(o) \/ Inject(o)
  BY <1>3, ZenonT(40) DEF TakeNextTurn, TakeAnnounced, StartLoop, Inject, Go, OpType
<1>8. CASE Injected(o) \/ Messages(o) \/ TurnEnd(o) \/ SavePoint(o)
  BY <1>8, SMTT(30) DEF Injected, Messages, TurnEnd, SavePoint, Go, GoFlush, OpType
<1>4. CASE \/ Request(o) \/ Prepare(o) \/ NothingQueued(o) \/ Drained(o) \/ Notify(o)
  BY <1>4, SMTT(30)
  DEF Request, Prepare, NothingQueued, AfterEmptyPoll, Drained, Notify, Go, GoFlush, OpType
<1>5. CASE GetSteering(o) \/ GetFollowUp(o)
  <2>1. PICK q, n : Take(o, q, n)
    BY <1>5 DEF GetSteering, GetFollowUp
  <2> QED
    BY <2>1 DEF Take, OpType
<1>6. CASE FlushAppend(o) \/ FlushShift(o)
  BY <1>6, ZenonT(40) DEF FlushAppend, FlushShift, Go, OpType
<1>9. CASE FlushDone(o)
  BY <1>9, ZenonT(40) DEF FlushDone, Go, OpType
<1>7. CASE Cleanup(o) \/ StructuralEnd(o)
  BY <1>7 DEF Cleanup, StructuralEnd
<1> QED
  BY <1>2, <1>3, <1>4, <1>5, <1>6, <1>7, <1>8, <1>9 DEF OpStep

(* Which steps make the harness idle. *)
LEMMA IdleSteps ==
  ASSUME NEW o \in Ops, Start(o) \/ OpStep(o), phase' = "idle"
  PROVE  \/ phase = "idle" \/ StructuralEnd(o)
         \/ FlushDone(o) /\ pendingWrites = <<>>
         \/ Cleanup(o) /\ op[o].error
<1>1. ~Start(o)
  BY DEF Start, Prompt, Structural, PhaseOf
<1> QED
  BY <1>1
  DEF OpStep, TakeNextTurn, TakeAnnounced, StartLoop, Inject, Injected, Request, Messages,
      TurnEnd, SavePoint, Prepare, NothingQueued, GetSteering, GetFollowUp, Drained,
      FlushAppend, FlushShift, FlushDone, Notify, Cleanup, SavePointThrows, runStepVars, runVars

(* The orders that queues and writes are kept in. *)
Increasing(s) == \A i, j \in DOMAIN s : i < j => s[i] < s[j]
Distinct(s) == \A i, j \in DOMAIN s : s[i] = s[j] => i = j

(* A flush is between its append and its shift. *)
Appending == \E o \in Ops : op[o].pc = "appended"

(* Every accepted write is in one place, except that between an append and
   the shift that follows the first pending write is in the session too. *)
WritesInv ==
  /\ Increasing(pendingWrites) /\ Distinct(written)
  /\ \A i \in DOMAIN written, j \in DOMAIN pendingWrites :
       written[i] = pendingWrites[j] => j = 1 /\ Appending
  /\ Appending => pendingWrites # <<>> /\ pendingWrites[1] \in Range(written)
  /\ \A w \in 1..accepted : w \in Range(written) \/ w \in Range(pendingWrites)

(* The operation that flushes is the only one in flight. *)
LEMMA OneFlush ==
  ASSUME TypeOK, PhaseInv, NEW o \in Ops
  PROVE  /\ op[o].pc = "flush" => ~Appending
         /\ FlushAppend(o) => op'[o].pc = "appended"
         /\ FlushShift(o) => op[o].pc = "appended" /\ ~Appending'
         /\ \A q \in Ops : FlushAppend(o) \/ FlushShift(o) => (q # o => op'[q] = op[q])
<1>0. op \in [Ops -> OpType]
  BY DEF TypeOK
<1>1. op[o].pc = "flush" => ~Appending
  BY DEF Appending, PhaseInv, InFlight
<1>2. FlushAppend(o) => op'[o].pc = "appended"
  BY <1>0 DEF FlushAppend, Go, OpType
<1>3. \A q \in Ops : FlushAppend(o) \/ FlushShift(o) => (q # o => op'[q] = op[q])
  BY <1>0 DEF FlushAppend, FlushShift, Go
<1>4. ASSUME FlushShift(o) PROVE op[o].pc = "appended" /\ ~Appending'
  <2>1. op[o].pc = "appended" /\ op'[o].pc = "flush"
    BY <1>0, <1>4 DEF FlushShift, At, Go, OpType
  <2> QED
    BY <1>3, <1>4, <2>1 DEF Appending, PhaseInv, InFlight
<1> QED
  BY <1>1, <1>2, <1>3, <1>4

(* WritesInv through each way a write can move. *)
LEMMA WritesStay ==
  ASSUME WritesInv, UNCHANGED <<pendingWrites, written, accepted>>, Appending' <=> Appending
  PROVE  WritesInv'
BY DEF WritesInv

(* The append of a flush keeps every write in its place. *)
LEMMA WritesAppend ==
  ASSUME TypeOK, PhaseInv, WritesInv, NEW o \in Ops, FlushAppend(o)
  PROVE  WritesInv'
<1>1. /\ pendingWrites \in Seq(1..accepted) /\ written \in Seq(1..accepted) /\ accepted \in Nat
      /\ pendingWrites # <<>> /\ op[o].pc = "flush"
      /\ written' = Append(written, pendingWrites[1])
      /\ UNCHANGED <<pendingWrites, accepted>>
  BY SMTT(30) DEF TypeOK, FlushAppend, At, runStepVars, inputVars
<1>2. ~Appending /\ Appending'
  BY <1>1, OneFlush DEF Appending
<1>3. /\ Len(pendingWrites) \in Nat /\ DOMAIN pendingWrites = 1..Len(pendingWrites)
      /\ 1 \in DOMAIN pendingWrites
      /\ Len(written) \in Nat /\ DOMAIN written = 1..Len(written)
      /\ DOMAIN written' = 1..(Len(written) + 1)
      /\ \A i \in DOMAIN written : written'[i] = written[i]
      /\ written'[Len(written) + 1] = pendingWrites[1]
  BY <1>1, SMTT(30)
<1>4. Distinct(written')
  BY <1>2, <1>3, SMTT(30) DEF WritesInv, Distinct
<1>5. ASSUME NEW i \in DOMAIN written', NEW j \in DOMAIN pendingWrites,
             written'[i] = pendingWrites[j]
      PROVE  j = 1
  <2>1. CASE i \in DOMAIN written
    BY <1>2, <1>3, <1>5, <2>1 DEF WritesInv
  <2>2. CASE i = Len(written) + 1
    <3>1. \A k \in DOMAIN pendingWrites : pendingWrites[k] \in Nat
      BY <1>1, SMTT(30)
    <3> QED
      BY <1>3, <1>5, <2>2, <3>1, SMTT(30) DEF WritesInv, Increasing
  <2> QED
    BY <1>3, <2>1, <2>2, SMTT(30)
<1>6. pendingWrites[1] \in Range(written') /\ Range(written) \subseteq Range(written')
  BY <1>3, SMTT(30) DEF Range
<1> QED
  BY <1>1, <1>2, <1>3, <1>4, <1>5, <1>6 DEF WritesInv

(* The shift of a flush removes the write that was just appended. *)
LEMMA WritesShift ==
  ASSUME TypeOK, PhaseInv, WritesInv, NEW o \in Ops, FlushShift(o)
  PROVE  WritesInv'
<1>1. Appending /\ ~Appending' /\ UNCHANGED <<written, accepted>>
  BY OneFlush DEF Appending, FlushShift, inputVars, session
<1>2. /\ pendingWrites \in Seq(1..accepted) /\ pendingWrites # <<>>
      /\ pendingWrites' = Tail(pendingWrites)
  BY <1>1 DEF TypeOK, FlushShift, WritesInv
<1>3. /\ Len(pendingWrites) \in Nat /\ DOMAIN pendingWrites = 1..Len(pendingWrites)
      /\ DOMAIN pendingWrites' = 1..(Len(pendingWrites) - 1)
      /\ \A i \in DOMAIN pendingWrites' :
           i + 1 \in DOMAIN pendingWrites /\ pendingWrites'[i] = pendingWrites[i + 1]
  BY <1>2, SMTT(30)
<1>4. Increasing(pendingWrites')
  BY <1>3, SMTT(30) DEF WritesInv, Increasing
<1>5. \A i \in DOMAIN written', j \in DOMAIN pendingWrites' : written'[i] # pendingWrites'[j]
  BY <1>1, <1>3, SMTT(30) DEF WritesInv
<1>6. ASSUME NEW w \in Range(pendingWrites), w # pendingWrites[1]
      PROVE  w \in Range(pendingWrites')
  <2>1. PICK i \in DOMAIN pendingWrites : pendingWrites[i] = w
    BY DEF Range
  <2>2. i - 1 \in DOMAIN pendingWrites' /\ pendingWrites'[i - 1] = w
    BY <1>3, <1>6, <2>1, SMTT(30)
  <2> QED
    BY <2>2 DEF Range
<1> QED
  BY <1>1, <1>4, <1>5, <1>6 DEF WritesInv

(* Adding at the end of a sequence of numbers. *)
LEMMA AddLast ==
  ASSUME NEW n \in Nat, NEW s \in Seq(1..n), NEW t, t = Append(s, n + 1)
  PROVE  /\ Len(s) \in Nat /\ DOMAIN s = 1..Len(s) /\ DOMAIN t = 1..(Len(s) + 1)
         /\ \A i \in DOMAIN s : t[i] = s[i] /\ s[i] \in 1..n
         /\ t[Len(s) + 1] = n + 1
         /\ Range(t) = Range(s) \cup {n + 1}
<1>1. /\ Len(s) \in Nat /\ DOMAIN s = 1..Len(s) /\ DOMAIN t = 1..(Len(s) + 1)
      /\ \A i \in DOMAIN s : t[i] = s[i] /\ s[i] \in 1..n
      /\ t[Len(s) + 1] = n + 1
  BY SMTT(30)
<1> QED
  BY <1>1, SMTT(30) DEF Range

(* A new write of the session is behind all others. *)
LEMMA WritesAccept ==
  ASSUME TypeOK, WritesInv, SessionWrite
  PROVE  WritesInv'
<1>1. /\ pendingWrites \in Seq(1..accepted) /\ written \in Seq(1..accepted) /\ accepted \in Nat
      /\ accepted' = accepted + 1 /\ op' = op
  BY DEF TypeOK, SessionWrite, outsideVars
<1>2. Appending' <=> Appending
  BY <1>1 DEF Appending
<1>3. CASE phase = "idle"
  <2>1. written' = Append(written, accepted + 1) /\ UNCHANGED pendingWrites
    BY <1>3 DEF SessionWrite
  <2>2. \A j \in DOMAIN pendingWrites : pendingWrites[j] \in 1..accepted
    BY <1>1, SMTT(30)
  <2>3. /\ Len(written) \in Nat /\ DOMAIN written = 1..Len(written)
        /\ DOMAIN written' = 1..(Len(written) + 1)
        /\ \A i \in DOMAIN written : written'[i] = written[i]
        /\ written'[Len(written) + 1] = accepted + 1
        /\ Distinct(written) => Distinct(written')
        /\ Range(written') = Range(written) \cup {accepted + 1}
    <3>1. accepted \in Nat /\ written \in Seq(1..accepted)
      BY <1>1
    <3>2. /\ Len(written) \in Nat /\ DOMAIN written = 1..Len(written)
          /\ DOMAIN written' = 1..(Len(written) + 1)
      BY <2>1, <3>1, SMTT(30)
    <3>4. Range(written') = Range(written) \cup {accepted + 1}
      BY <2>1, <3>1, AddLast
    <3>5. written'[Len(written) + 1] = accepted + 1
      BY <2>1, <3>1, SMTT(30)
    <3>6. \A i \in DOMAIN written : written'[i] = written[i] /\ written[i] \in 1..accepted
      BY <2>1, <3>1, SMTT(30)
    <3>3. Distinct(written) => Distinct(written')
      BY <3>1, <3>2, <3>5, <3>6, SMTT(30) DEF Distinct
    <3> QED
      BY <3>2, <3>3, <3>4, <3>5, <3>6
  <2>4. ASSUME NEW i \in DOMAIN written', NEW j \in DOMAIN pendingWrites,
               written'[i] = pendingWrites[j]
        PROVE  j = 1 /\ Appending
    <3>0. pendingWrites[j] \in 1..accepted
      BY <2>2
    <3>1. i \in DOMAIN written
      BY <1>1, <2>3, <2>4, <3>0, SMTT(30)
    <3> QED
      BY <2>3, <2>4, <3>1 DEF WritesInv
  <2>5. \A w \in 1..accepted' : w \in Range(written') \/ w \in Range(pendingWrites)
    <3>1. \A w \in 1..accepted' : w \in 1..accepted \/ w = accepted + 1
      BY <1>1, SMTT(30)
    <3> QED
      BY <2>3, <3>1 DEF WritesInv
  <2> QED
    BY <1>2, <2>1, <2>3, <2>4, <2>5 DEF WritesInv
<1>4. CASE phase # "idle"
  <2>1. pendingWrites' = Append(pendingWrites, accepted + 1) /\ UNCHANGED written
    BY <1>4 DEF SessionWrite
  <2>2. \A i \in DOMAIN written : written[i] \in 1..accepted
    BY <1>1, SMTT(30)
  <2>3. /\ Len(pendingWrites) \in Nat /\ DOMAIN pendingWrites = 1..Len(pendingWrites)
        /\ DOMAIN pendingWrites' = 1..(Len(pendingWrites) + 1)
        /\ \A i \in DOMAIN pendingWrites : pendingWrites'[i] = pendingWrites[i]
        /\ pendingWrites'[Len(pendingWrites) + 1] = accepted + 1
        /\ Increasing(pendingWrites) => Increasing(pendingWrites')
        /\ Range(pendingWrites') = Range(pendingWrites) \cup {accepted + 1}
    <3>1. accepted \in Nat /\ pendingWrites \in Seq(1..accepted)
      BY <1>1
    <3>2. /\ Len(pendingWrites) \in Nat /\ DOMAIN pendingWrites = 1..Len(pendingWrites)
          /\ DOMAIN pendingWrites' = 1..(Len(pendingWrites) + 1)
      BY <2>1, <3>1, SMTT(30)
    <3>4. Range(pendingWrites') = Range(pendingWrites) \cup {accepted + 1}
      BY <2>1, <3>1, AddLast
    <3>5. pendingWrites'[Len(pendingWrites) + 1] = accepted + 1
      BY <2>1, <3>1, SMTT(30)
    <3>6. \A i \in DOMAIN pendingWrites :
            pendingWrites'[i] = pendingWrites[i] /\ pendingWrites[i] \in 1..accepted
      BY <2>1, <3>1, SMTT(30)
    <3>3. Increasing(pendingWrites) => Increasing(pendingWrites')
      <4> SUFFICES ASSUME Increasing(pendingWrites),
                          NEW i \in DOMAIN pendingWrites', NEW j \in DOMAIN pendingWrites', i < j
                   PROVE  pendingWrites'[i] < pendingWrites'[j]
        BY DEF Increasing
      <4>1. i \in DOMAIN pendingWrites
        BY <3>2, SMTT(30)
      <4>2. CASE j \in DOMAIN pendingWrites
        BY <3>6, <4>1, <4>2 DEF Increasing
      <4>3. CASE j = Len(pendingWrites) + 1
        BY <3>1, <3>5, <3>6, <4>1, <4>3, SMTT(30)
      <4> QED
        BY <3>2, <4>2, <4>3, SMTT(30)
    <3> QED
      BY <3>2, <3>3, <3>4, <3>5, <3>6
  <2>4. ASSUME NEW i \in DOMAIN written, NEW j \in DOMAIN pendingWrites',
               written[i] = pendingWrites'[j]
        PROVE  j = 1 /\ Appending
    <3>1. j \in DOMAIN pendingWrites
      BY <1>1, <2>2, <2>3, <2>4, SMTT(30)
    <3> QED
      BY <2>3, <2>4, <3>1 DEF WritesInv
  <2>5. \A w \in 1..accepted' : w \in Range(written) \/ w \in Range(pendingWrites')
    <3>1. \A w \in 1..accepted' : w \in 1..accepted \/ w = accepted + 1
      BY <1>1, SMTT(30)
    <3> QED
      BY <2>3, <3>1 DEF WritesInv
  <2>6. Appending => pendingWrites' # <<>> /\ pendingWrites'[1] = pendingWrites[1]
    <3>1. pendingWrites # <<>> => 1 \in DOMAIN pendingWrites
      BY <1>1, SMTT(30)
    <3>2. pendingWrites' # <<>>
      BY <2>3, SMTT(30)
    <3> QED
      BY <2>3, <3>1, <3>2 DEF WritesInv
  <2> QED
    BY <1>2, <2>1, <2>3, <2>4, <2>5, <2>6 DEF WritesInv
<1> QED
  BY <1>3, <1>4

(* As long as nothing fails and there are only prompts, the session is behind
   the pending writes, and there are none when the harness is idle. *)
Smooth == faults = 0 /\ \A o \in Ops : op[o].kind = "prompt"
OrderInv ==
  /\ \A o \in Ops : op[o].error => faults > 0
  /\ Smooth =>
       /\ Increasing(written)
       /\ \A i \in DOMAIN written, j \in DOMAIN pendingWrites : written[i] <= pendingWrites[j]
       /\ phase = "idle" => pendingWrites = <<>>

(* Every step of the harness keeps WritesInv. *)
LEMMA WritesInvStep ==
  ASSUME TypeOK, PhaseInv, WritesInv, [Next]_vars
  PROVE  WritesInv'
<1>1. ASSUME NEW o \in Ops, Start(o) \/ OpStep(o) \/ OpThrows(o), ~FlushAppend(o), ~FlushShift(o)
      PROVE  WritesInv'
  <2>1. Appending' <=> Appending
    BY <1>1, WritesFrame, OthersStay DEF Appending
  <2> QED
    BY <1>1, <2>1, WritesFrame, WritesStay
<1>2. CASE \/ Steer \/ FollowUp \/ NextTurn \/ Abort \/ AbortStep \/ UNCHANGED vars
  <2>1. UNCHANGED <<pendingWrites, written, accepted, op>>
    BY <1>2
    DEF Steer, FollowUp, NextTurn, Abort, AbortStep, AbortWaits, AbortReturns, outsideVars,
        inputVars, session, vars
  <2> QED
    BY <2>1, WritesStay DEF Appending
<1> QED
  BY <1>1, <1>2, WritesAppend, WritesShift, WritesAccept DEF Next

(* A step that leaves the harness smooth found it so, and an operation that
   makes it idle has written everything. *)
LEMMA SmoothStep ==
  ASSUME TypeOK, PhaseInv, \A q \in Ops : op[q].error => faults > 0,
         NEW o \in Ops, Start(o) \/ OpStep(o) \/ OpThrows(o), Smooth'
  PROVE  /\ Smooth
         /\ phase' = "idle" => phase = "idle" \/ pendingWrites = <<>>
<1>0. faults \in Nat /\ op \in [Ops -> OpType] /\ op[o] \in OpType
  BY DEF TypeOK
<1>1. faults = 0 /\ (Start(o) \/ OpStep(o))
  BY <1>0, ThrowsCount, SMTT(30) DEF Smooth
<1>2. StructuralEnd(o) => op[o].kind # "prompt" /\ op'[o].kind = op[o].kind
  BY <1>0, SMTT(30) DEF StructuralEnd, At, PhaseInv, Done, Unstarted
<1>3. ~StructuralEnd(o)
  BY <1>2 DEF Smooth
<1>4. op[o].kind = "prompt"
  <2>1. CASE Start(o)
    BY <2>1, SMTT(30) DEF Start, Prompt, Structural, At, PhaseInv, Unstarted
  <2>2. CASE OpStep(o)
    <3>1. Runs(o)
      BY <1>3, <2>2, ZenonT(40)
      DEF Runs, At, OpStep, TakeNextTurn, TakeAnnounced, StartLoop, Inject, Injected,
          Request, Messages, TurnEnd, SavePoint, Prepare, NothingQueued, GetSteering,
          GetFollowUp, Drained, FlushAppend, FlushShift, FlushDone, Notify, Cleanup,
          SavePointThrows
    <3> QED
      BY <3>1 DEF PhaseInv, RunInv
  <2> QED
    BY <1>1, <2>1, <2>2, ZenonT(40)
<1>5. \A q \in Ops : op[q].kind = "prompt"
  BY <1>4, OthersStay DEF Smooth
<1>6. ~op[o].error
  BY <1>0, <1>1, SMTT(30)
<1> QED
  BY <1>1, <1>3, <1>5, <1>6, IdleSteps DEF Smooth

(* OrderInv through the steps that move a write, and through all others. *)
LEMMA OrderInvStep ==
  ASSUME TypeOK, PhaseInv, WritesInv, OrderInv, [Next]_vars
  PROVE  OrderInv'
<1>0. /\ faults \in Nat /\ op \in [Ops -> OpType] /\ accepted \in Nat
      /\ pendingWrites \in Seq(1..accepted) /\ written \in Seq(1..accepted)
  BY DEF TypeOK
<1>1. ASSUME NEW o \in Ops, Start(o) \/ OpStep(o) \/ OpThrows(o), NEW q \in Ops, op'[q].error
      PROVE  faults' > 0
  <2>1. CASE OpThrows(o)
    BY <1>0, <2>1, ThrowsCount, SMTT(30)
  <2>2. CASE Start(o) \/ OpStep(o)
    BY <1>1, <2>2, ThrowsCount, ErrorsAreFaults, OthersStay DEF OrderInv
  <2> QED
    BY <1>1, <2>1, <2>2
<1>2. ASSUME NEW o \in Ops, Start(o) \/ OpStep(o) \/ OpThrows(o), ~FlushAppend(o), ~FlushShift(o)
      PROVE  OrderInv'
  <2>1. UNCHANGED <<pendingWrites, written>>
    BY <1>2, WritesFrame
  <2>2. Smooth' => Smooth /\ (phase' = "idle" => phase = "idle" \/ pendingWrites = <<>>)
    BY <1>2, SmoothStep DEF OrderInv
  <2> QED
    BY <1>1, <1>2, <2>1, <2>2 DEF OrderInv
<1>3. ASSUME NEW o \in Ops, FlushAppend(o) PROVE OrderInv'
  <2>1. /\ pendingWrites # <<>> /\ op[o].pc = "flush"
        /\ written' = Append(written, pendingWrites[1])
        /\ UNCHANGED <<pendingWrites, phase>> /\ OpStep(o)
    <3>1. OpStep(o)
      BY <1>3 DEF OpStep
    <3>2. /\ pendingWrites # <<>> /\ op[o].pc = "flush"
          /\ written' = Append(written, pendingWrites[1])
          /\ UNCHANGED <<pendingWrites, phase>>
      BY <1>3, SMTT(30) DEF FlushAppend, At, runStepVars, runVars
    <3> QED
      BY <3>1, <3>2
  <2>2. /\ DOMAIN pendingWrites = 1..Len(pendingWrites) /\ 1 \in DOMAIN pendingWrites
        /\ Len(written) \in Nat /\ DOMAIN written = 1..Len(written)
        /\ DOMAIN written' = 1..(Len(written) + 1)
        /\ \A i \in DOMAIN written : written'[i] = written[i] /\ written[i] \in 1..accepted
        /\ \A j \in DOMAIN pendingWrites : pendingWrites[j] \in 1..accepted
        /\ written'[Len(written) + 1] = pendingWrites[1]
    BY <1>0, <2>1, SMTT(30)
  <2>3. \A i \in DOMAIN written : written[i] # pendingWrites[1]
    BY <2>1, <2>2, OneFlush DEF WritesInv
  <2>4. ASSUME Smooth
        PROVE  /\ Increasing(written')
               /\ \A i \in DOMAIN written', j \in DOMAIN pendingWrites :
                    written'[i] <= pendingWrites[j]
    <3>1. /\ Increasing(written)
          /\ \A i \in DOMAIN written, j \in DOMAIN pendingWrites : written[i] <= pendingWrites[j]
      BY <2>4 DEF OrderInv
    <3>2. \A i \in DOMAIN written : written[i] < pendingWrites[1]
      BY <2>2, <2>3, <3>1, SMTT(30)
    <3>3. Increasing(written')
      BY <2>2, <3>1, <3>2, SMTT(30) DEF Increasing
    <3>4. \A j \in DOMAIN pendingWrites : pendingWrites[1] <= pendingWrites[j]
      BY <2>2, SMTT(30) DEF WritesInv, Increasing
    <3> QED
      BY <2>2, <3>1, <3>3, <3>4, SMTT(30)
  <2>5. Smooth' => Smooth
    BY <2>1, SmoothStep DEF OrderInv
  <2> QED
    BY <1>1, <2>1, <2>4, <2>5 DEF OrderInv
<1>4. ASSUME NEW o \in Ops, FlushShift(o) PROVE OrderInv'
  <2>1. UNCHANGED <<written, phase>> /\ OpStep(o)
    BY <1>4 DEF FlushShift, OpStep, runVars, session
  <2>2. /\ pendingWrites # <<>> /\ pendingWrites' = Tail(pendingWrites)
    BY <1>4, OneFlush DEF FlushShift, WritesInv, Appending
  <2>3. \A j \in DOMAIN pendingWrites' :
          j + 1 \in DOMAIN pendingWrites /\ pendingWrites'[j] = pendingWrites[j + 1]
    BY <1>0, <2>2, SMTT(30)
  <2>4. Smooth' => Smooth
    BY <2>1, SmoothStep DEF OrderInv
  <2> QED
    BY <1>1, <2>1, <2>2, <2>3, <2>4 DEF OrderInv
<1>5. CASE SessionWrite
  <2>1. UNCHANGED <<op, faults, phase>> /\ (Smooth' <=> Smooth)
    BY <1>5 DEF SessionWrite, outsideVars, runVars, Smooth
  <2>2. CASE phase = "idle"
    <3>1. written' = Append(written, accepted + 1) /\ UNCHANGED pendingWrites
      BY <1>5, <2>2 DEF SessionWrite
    <3>2. /\ Len(written) \in Nat /\ DOMAIN written = 1..Len(written)
          /\ DOMAIN written' = 1..(Len(written) + 1)
          /\ \A i \in DOMAIN written : written'[i] = written[i] /\ written[i] \in 1..accepted
          /\ written'[Len(written) + 1] = accepted + 1
      BY <1>0, <3>1, SMTT(30)
    <3>3. Increasing(written) => Increasing(written')
      <4>1. SUFFICES ASSUME Increasing(written), NEW i \in DOMAIN written',
                            NEW j \in DOMAIN written', i < j
                     PROVE  written'[i] < written'[j]
        BY DEF Increasing
      <4>2. i \in DOMAIN written /\ written'[i] \in 1..accepted
        BY <3>2, <4>1, SMTT(30)
      <4>3. CASE j \in DOMAIN written
        BY <3>2, <4>1, <4>2, <4>3 DEF Increasing
      <4>4. CASE j = Len(written) + 1
        BY <1>0, <3>2, <4>2, <4>4, SMTT(30)
      <4> QED
        BY <3>2, <4>1, <4>3, <4>4, SMTT(30)
    <3>4. Smooth => DOMAIN pendingWrites = {}
      BY <1>0, <2>2, SMTT(30) DEF OrderInv
    <3> QED
      BY <2>1, <3>1, <3>3, <3>4 DEF OrderInv
  <2>3. CASE phase # "idle"
    <3>1. pendingWrites' = Append(pendingWrites, accepted + 1) /\ UNCHANGED written
      BY <1>5, <2>3 DEF SessionWrite
    <3>2. /\ \A i \in DOMAIN written : written[i] \in 1..accepted
          /\ \A j \in DOMAIN pendingWrites' :
               \/ j \in DOMAIN pendingWrites /\ pendingWrites'[j] = pendingWrites[j]
               \/ pendingWrites'[j] = accepted + 1
      BY <1>0, <3>1, SMTT(30)
    <3> QED
      BY <1>0, <2>1, <2>3, <3>1, <3>2, SMTT(30) DEF OrderInv
  <2> QED
    BY <2>2, <2>3
<1>6. CASE Steer \/ FollowUp \/ NextTurn \/ Abort \/ AbortStep \/ UNCHANGED vars
  <2>1. UNCHANGED <<pendingWrites, written, op, faults, phase>>
    BY <1>6
    DEF Steer, FollowUp, NextTurn, Abort, AbortStep, AbortWaits, AbortReturns, outsideVars,
        runVars, session, vars
  <2> QED
    BY <2>1 DEF OrderInv, Smooth
<1> QED
  BY <1>2, <1>3, <1>4, <1>5, <1>6 DEF Next

(* What the invariants say of a single write. *)
LEMMA WritesKeptHolds ==
  ASSUME TypeOK, WritesInv, OrderInv
  PROVE  WritesKept
BY DEF WritesKept, WritesInv, Distinct, IsInjective, OrderInv, Smooth, Increasing

(* There are no writes at the start. *)
LEMMA WritesInvInit ==
  Init => WritesInv /\ OrderInv
<1> SUFFICES ASSUME Init PROVE WritesInv /\ OrderInv
  OBVIOUS
<1>1. DOMAIN pendingWrites = {} /\ DOMAIN written = {} /\ pendingWrites = <<>>
  BY SMTT(30) DEF Init
<1>2. \A o \in Ops : op[o].pc = "unstarted" /\ op[o].error = FALSE
  BY DEF Init, Unstarted
<1>3. 1..accepted = {}
  BY SMTT(30) DEF Init
<1> QED
  BY <1>1, <1>2, <1>3 DEF WritesInv, OrderInv, Increasing, Distinct, Appending

(* A write the harness accepted is never lost and never stored twice, whatever
   fails, as long as operations follow one another; with prompts only and no
   failure the session has the writes in the order in which they were
   accepted. *)
THEOREM WritesAreKept == ~Overlap => (Spec => []WritesKept)
<1> SUFFICES ASSUME ~Overlap PROVE Spec => []WritesKept
  OBVIOUS
<1> DEFINE I == TypeInv /\ PhaseInv /\ WritesInv /\ OrderInv
<1>1. Init => I
  BY TypeInvInit, PhaseInvInit, WritesInvInit
<1>2. I /\ [Next]_vars => I'
  BY TypeInvStep, PhaseInvStep, WritesInvStep, OrderInvStep DEF TypeInv
<1>3. I => WritesKept
  BY WritesKeptHolds DEF TypeInv
<1> QED
  BY <1>1, <1>2, <1>3, PTL DEF Spec

-----------------------------------------------------------------------------
(* Queued messages *)

(* Where a message waits, the queued messages in an inbox, and the points at
   which an inbox may have messages. *)
Waiting == Range(steerQueue) \cup Range(followUpQueue) \cup Range(nextTurnQueue)
Box(r) == Range(r.inbox) \ {PromptMessage}
Holding == {"taken", "before", "inject", "steered", "followed"}

(* A's messages were sent before B's to the same queue; so none is in both. *)
Ahead(A, B) == \A a \in A, b \in B : sent[a] = sent[b] => a < b

QueueInv(s, name) == Increasing(s) /\ \A m \in Range(s) : sent[m] = name

InOrder(s) == \A i, j \in DOMAIN s : i < j /\ sent[s[i]] = sent[s[j]] => s[i] < s[j]

(* An inbox has the messages of one queue in their order, and the prompt's own
   message behind those of the nextTurn queue. *)
InboxInv(r) ==
  /\ r.pc \notin Holding => r.inbox = <<>>
  /\ \A i \in DOMAIN r.inbox : r.inbox[i] = PromptMessage => i = Len(r.inbox)
  /\ \A i, j \in DOMAIN r.inbox : i < j /\ r.inbox[j] # PromptMessage => r.inbox[i] < r.inbox[j]
  /\ r.pc = "taken" =>
       /\ r.inbox # <<>> /\ r.inbox[Len(r.inbox)] = PromptMessage
       /\ \A m \in Box(r) : sent[m] = "nextTurn"
  /\ r.pc = "steered" => PromptMessage \notin Range(r.inbox) /\ \A m \in Box(r) : sent[m] = "steer"
  /\ r.pc = "followed" =>
       PromptMessage \notin Range(r.inbox) /\ \A m \in Box(r) : sent[m] = "followUp"

(* A message goes from its queue to an inbox and from there to the session,
   and keeps its place among those of its queue; abort() takes it out. *)
MessagesInv ==
  /\ QueueInv(steerQueue, "steer") /\ QueueInv(followUpQueue, "followUp")
  /\ QueueInv(nextTurnQueue, "nextTurn")
  /\ InOrder(delivered) /\ \A o \in Ops : InboxInv(op[o])
  /\ Ahead(Range(delivered), Waiting) /\ cleared \cap (Range(delivered) \cup Waiting) = {}
  /\ \A o \in Ops : /\ Ahead(Range(delivered), Box(op[o])) /\ Ahead(Box(op[o]), Waiting)
                    /\ Box(op[o]) \cap cleared = {}
  /\ faults = 0 => \A m \in SentIds :
       m \in Range(delivered) \cup Waiting \cup cleared \/ \E o \in Ops : m \in Box(op[o])

(* Sequences of numbers: taking from the front, putting back, adding. *)
LEMMA SplitQueue ==
  ASSUME NEW T, T \subseteq Nat, NEW q \in Seq(T), NEW n \in 1..Len(q), Increasing(q)
  PROVE  LET s == SubSeq(q, 1, n)
             r == SubSeq(q, n + 1, Len(q))
         IN  /\ Increasing(s) /\ Increasing(r)
             /\ Range(q) = Range(s) \cup Range(r)
             /\ \A a \in Range(s), b \in Range(r) : a < b
<1> DEFINE s == SubSeq(q, 1, n)
           r == SubSeq(q, n + 1, Len(q))
<1>1. /\ Len(q) \in Nat /\ DOMAIN q = 1..Len(q) /\ \A i \in DOMAIN q : q[i] \in Nat
  BY SeqParts
<1>2. /\ DOMAIN s = 1..n /\ \A i \in DOMAIN s : i \in DOMAIN q /\ s[i] = q[i]
  BY <1>1, SubSeqParts, SMTT(30)
<1>3. /\ DOMAIN r = 1..(Len(q) - n)
      /\ \A i \in DOMAIN r : i + n \in DOMAIN q /\ r[i] = q[i + n]
  BY <1>1, SubSeqParts, SMTT(30)
<1> HIDE DEF s, r
<1>4. Increasing(s)
  BY <1>1, <1>2 DEF Increasing
<1>5. Increasing(r)
  BY <1>1, <1>3, SMTT(30) DEF Increasing
<1>6. ASSUME NEW m \in Range(q) PROVE m \in Range(s) \cup Range(r)
  <2>1. PICK i \in DOMAIN q : q[i] = m
    BY DEF Range
  <2>2. CASE i <= n
    BY <1>1, <1>2, <2>1, <2>2, SMTT(30) DEF Range
  <2>3. CASE i > n
    <3>1. i - n \in DOMAIN r /\ r[i - n] = m
      BY <1>1, <1>3, <2>1, <2>3, SMTT(30)
    <3> QED
      BY <3>1 DEF Range
  <2> QED
    BY <1>1, <2>2, <2>3, SMTT(30)
<1>7. Range(s) \subseteq Range(q) /\ Range(r) \subseteq Range(q)
  BY <1>2, <1>3, ZenonT(40) DEF Range
<1>8. ASSUME NEW a \in Range(s), NEW b \in Range(r) PROVE a < b
  <2>1. PICK i \in DOMAIN s : s[i] = a
    BY DEF Range
  <2>2. PICK j \in DOMAIN r : r[j] = b
    BY DEF Range
  <2>3. i < j + n
    BY <1>1, <1>2, <1>3, SMTT(30)
  <2> QED
    BY <1>2, <1>3, <2>1, <2>2, <2>3 DEF Increasing
<1>9. Range(q) = Range(s) \cup Range(r)
  BY <1>6, <1>7
<1> QED
  BY <1>4, <1>5, <1>8, <1>9 DEF s, r

(* Two queues of which one is ahead of the other make one queue. *)
LEMMA JoinQueue ==
  ASSUME NEW T, T \subseteq Nat, NEW s \in Seq(T), NEW q \in Seq(T), Increasing(s), Increasing(q),
         \A a \in Range(s), b \in Range(q) : a < b
  PROVE  Increasing(s \o q) /\ Range(s \o q) = Range(s) \cup Range(q)
<1> DEFINE t == s \o q
<1>1. /\ Len(s) \in Nat /\ Len(q) \in Nat /\ DOMAIN s = 1..Len(s) /\ DOMAIN q = 1..Len(q)
      /\ DOMAIN t = 1..(Len(s) + Len(q))
      /\ \A i \in DOMAIN t : t[i] = IF i <= Len(s) THEN s[i] ELSE q[i - Len(s)]
  BY ConcatParts, SeqParts, SMTT(30)
<1>2. Range(t) = Range(s) \cup Range(q)
  <2>1. ASSUME NEW m \in Range(q) PROVE m \in Range(t)
    <3>1. PICK i \in DOMAIN q : q[i] = m
      BY DEF Range
    <3>2. i + Len(s) \in DOMAIN t /\ t[i + Len(s)] = m
      BY <1>1, <3>1, SMTT(30)
    <3> QED
      BY <3>2 DEF Range
  <2> HIDE DEF t
  <2>2. Range(s) \subseteq Range(t)
    BY <1>1, SMTT(30) DEF Range
  <2>3. Range(t) \subseteq Range(s) \cup Range(q)
    BY <1>1, SMTT(30) DEF Range
  <2> QED
    BY <2>1, <2>2, <2>3
<1> HIDE DEF t
<1>3. ASSUME NEW i \in DOMAIN t, NEW j \in DOMAIN t, i < j PROVE t[i] < t[j]
  <2>1. CASE j <= Len(s)
    BY <1>1, <1>3, <2>1, SMTT(30) DEF Increasing
  <2>2. CASE i > Len(s)
    <3>1. i - Len(s) \in DOMAIN q /\ j - Len(s) \in DOMAIN q /\ i - Len(s) < j - Len(s)
      BY <1>1, <1>3, <2>2, SMTT(30)
    <3>2. t[i] = q[i - Len(s)] /\ t[j] = q[j - Len(s)]
      BY <1>1, <1>3, <2>2, SMTT(30)
    <3> QED
      BY <3>1, <3>2 DEF Increasing
  <2>3. CASE i <= Len(s) /\ j > Len(s)
    <3>1. i \in DOMAIN s /\ j - Len(s) \in DOMAIN q /\ t[i] = s[i] /\ t[j] = q[j - Len(s)]
      BY <1>1, <2>3, SMTT(30)
    <3>2. s[i] \in Range(s) /\ q[j - Len(s)] \in Range(q)
      BY <3>1 DEF Range
    <3> QED
      BY <3>1, <3>2
  <2> QED
    BY <1>1, <2>1, <2>2, <2>3, SMTT(30)
<1>4. Increasing(t)
  BY <1>3 DEF Increasing
<1> QED
  BY <1>2, <1>4 DEF t

(* A message behind all those of a sequence. *)
LEMMA AddMessage ==
  ASSUME NEW T, T \subseteq Nat, NEW q \in Seq(T), NEW m \in Nat, \A a \in Range(q) : a < m
  PROVE  /\ Increasing(q) => Increasing(Append(q, m))
         /\ Range(Append(q, m)) = Range(q) \cup {m}
<1> DEFINE t == Append(q, m)
<1>1. /\ Len(q) \in Nat /\ DOMAIN q = 1..Len(q) /\ DOMAIN t = 1..(Len(q) + 1)
      /\ \A i \in DOMAIN q : t[i] = q[i] /\ q[i] \in Nat
      /\ t[Len(q) + 1] = m
  <2>1. q \in Seq(Nat)
    BY SeqMonotonic
  <2> HIDE DEF t
  <2> QED
    BY <2>1, SMTT(30) DEF t
<1> HIDE DEF t
<1>2. \A i \in DOMAIN q : q[i] < m
  BY DEF Range
<1>3. Increasing(q) => Increasing(t)
  BY <1>1, <1>2, SMTT(30) DEF Increasing
<1>4. Range(t) = Range(q) \cup {m}
  BY <1>1, SMTT(30) DEF Range
<1> QED
  BY <1>3, <1>4 DEF t

messageVars == <<steerQueue, followUpQueue, nextTurnQueue, delivered, cleared, sent>>

(* A step that moves no message, or loses those of an inbox in a failure. *)
BoxKept(o) ==
  /\ UNCHANGED messageVars
  /\ \/ op'[o].inbox = op[o].inbox
     \/ op'[o].inbox = <<>> /\ faults' > 0
  /\ op'[o].pc \notin {"taken", "steered", "followed"}
  /\ op'[o].pc \notin Holding => op'[o].inbox = <<>>

(* A step that leaves queues and inbox, or loses an inbox by a fault, keeps MessagesInv. *)
LEMMA BoxKeptInv ==
  ASSUME TypeOK, MessagesInv, NEW o \in Ops, \A q \in Ops \ {o} : op'[q] = op[q],
         BoxKept(o), faults' = 0 => faults = 0
  PROVE  MessagesInv'
<1>1. UNCHANGED <<Waiting, SentIds>>
  BY DEF BoxKept, messageVars, Waiting, SentIds
<1>2. Box(op'[o]) \subseteq Box(op[o]) /\ (faults' = 0 => Box(op'[o]) = Box(op[o]))
  <2>1. Range(<<>>) = {}
    BY SMTT(30) DEF Range
  <2> QED
    BY <2>1, SMTT(30) DEF BoxKept, Box
<1>3. InboxInv(op'[o])
  <2>0. DOMAIN <<>> = {}
    BY SMTT(30)
  <2>1. InboxInv(op[o])
    BY DEF MessagesInv
  <2>2. CASE op'[o].inbox = op[o].inbox
    BY <2>1, <2>2 DEF BoxKept, InboxInv
  <2>3. CASE op'[o].inbox = <<>>
    BY <2>0, <2>1, <2>3 DEF BoxKept, InboxInv
  <2> QED
    BY <2>2, <2>3 DEF BoxKept
<1>4. ASSUME NEW q \in Ops PROVE InboxInv(op[q])'
  <2>1. InboxInv(op'[q])
    BY <1>3 DEF MessagesInv
  <2> QED
    BY <2>1 DEF InboxInv, BoxKept, messageVars
<1>5. ASSUME NEW q \in Ops PROVE Box(op'[q]) \subseteq Box(op[q])
  BY <1>2, SMTT(30)
<1>6. /\ UNCHANGED <<sent, delivered, cleared, steerQueue, followUpQueue, nextTurnQueue>>
  BY DEF BoxKept, messageVars
<1>7. (QueueInv(steerQueue, "steer") /\ QueueInv(followUpQueue, "followUp")
       /\ QueueInv(nextTurnQueue, "nextTurn") /\ InOrder(delivered))'
  BY <1>6 DEF MessagesInv, QueueInv, InOrder
<1>8. Ahead(Range(delivered), Waiting)' /\ (cleared \cap (Range(delivered) \cup Waiting) = {})'
  BY <1>1, <1>6 DEF MessagesInv, Ahead
<1>9. ASSUME NEW q \in Ops
      PROVE  (/\ Ahead(Range(delivered), Box(op[q])) /\ Ahead(Box(op[q]), Waiting)
              /\ Box(op[q]) \cap cleared = {})'
  <2>1. /\ Ahead(Range(delivered), Box(op[q])) /\ Ahead(Box(op[q]), Waiting)
        /\ Box(op[q]) \cap cleared = {}
    BY DEF MessagesInv
  <2> QED
    BY <1>1, <1>5, <1>6, <2>1 DEF Ahead
<1>10. ASSUME faults' = 0, NEW m \in SentIds'
       PROVE  (m \in Range(delivered) \cup Waiting \cup cleared \/ \E q \in Ops : m \in Box(op[q]))'
  <2>1. m \in Range(delivered) \cup Waiting \cup cleared \/ \E q \in Ops : m \in Box(op[q])
    BY <1>1, <1>10 DEF MessagesInv
  <2>2. \A q \in Ops : Box(op'[q]) = Box(op[q])
    BY <1>2, <1>10
  <2> QED
    BY <1>1, <1>6, <2>1, <2>2
<1> QED
  BY <1>4, <1>7, <1>8, <1>9, <1>10 DEF MessagesInv

(* The steps of an operation that move no message. *)
LEMMA OpStepBox ==
  ASSUME TypeOK, MessagesInv, NEW o \in Ops, Start(o) \/ OpStep(o),
         ~TakeNextTurn(o), ~Inject(o), ~GetSteering(o), ~GetFollowUp(o)
  PROVE  BoxKept(o)
<1>0. /\ op \in [Ops -> OpType] /\ op[o] \in OpType
      /\ op[o].ret \in {"save_point", "prepare", "agent_end", "cleanup"}
      /\ op[o].pc \notin Holding => op[o].inbox = <<>>
  BY Fields DEF TypeOK, MessagesInv, InboxInv
<1>1. Done(o) => op'[o].inbox = <<>> /\ op'[o].pc = "done"
  BY <1>0, SMTT(30) DEF Done, Unstarted
<1> USE <1>0 DEF At, messageVars, runStepVars, queueVars, inputVars, session, Holding
<1>2. ASSUME UNCHANGED messageVars, op'[o].inbox = op[o].inbox,
             op'[o].pc \notin {"taken", "steered", "followed"},
             op'[o].pc \notin Holding => op[o].inbox = <<>>
      PROVE  BoxKept(o)
  BY <1>2, ZenonT(40) DEF BoxKept
<1>3. CASE Start(o)
  BY <1>2, <1>3, SMTT(30) DEF Start, Prompt, Structural, OpType
<1>4. CASE TakeAnnounced(o) \/ StartLoop(o) \/ Drained(o)
  BY <1>2, <1>4, SMTT(30) DEF TakeAnnounced, StartLoop, Drained, Go, OpType
<1>5. CASE Injected(o)
  BY <1>2, <1>5, ZenonT(40) DEF Injected, OpType
<1>6. CASE Messages(o) \/ TurnEnd(o) \/ SavePoint(o) \/ Notify(o)
  BY <1>2, <1>6, SMTT(30) DEF Messages, TurnEnd, SavePoint, Notify, Go, GoFlush, OpType
<1>7. CASE Request(o) \/ Prepare(o)
  BY <1>2, <1>7, SMTT(30) DEF Request, Prepare, OpType
<1>8. CASE NothingQueued(o)
  BY <1>2, <1>8, SMTT(30) DEF NothingQueued, AfterEmptyPoll, Go, GoFlush, OpType
<1>9. CASE FlushAppend(o) \/ FlushShift(o) \/ FlushDone(o)
  BY <1>2, <1>9, SMTT(30) DEF FlushAppend, FlushShift, FlushDone, Go, OpType
<1>10. CASE Cleanup(o) \/ StructuralEnd(o)
  BY <1>1, <1>10 DEF Cleanup, StructuralEnd, BoxKept
<1>11. CASE SavePointThrows(o)
  BY <1>2, <1>11, ZenonT(40) DEF SavePointThrows, OpType
<1> QED
  BY <1>3, <1>4, <1>5, <1>6, <1>7, <1>8, <1>9, <1>10, <1>11, ZenonT(40) DEF OpStep

(* A failure leaves the queues; it may lose what the operation holds. *)
LEMMA OpThrowsBox ==
  ASSUME TypeOK, MessagesInv, NEW o \in Ops, OpThrows(o),
         ~TakeThrows(o), ~DrainThrows(o), InjectThrows(o) => UNCHANGED delivered
  PROVE  BoxKept(o)
<1>0. /\ op \in [Ops -> OpType] /\ op[o] \in OpType /\ faults' > 0
      /\ op[o].pc \notin Holding => op[o].inbox = <<>>
  <2>1. op \in [Ops -> OpType] /\ op[o] \in OpType /\ faults \in Nat
    BY DEF TypeOK
  <2>2. faults' > 0
    BY <2>1, ThrowsCount, SMTT(30)
  <2>3. op[o].pc \notin Holding => op[o].inbox = <<>>
    BY DEF MessagesInv, InboxInv
  <2> QED
    BY <2>1, <2>2, <2>3
<1>1. Done(o) => op'[o].inbox = <<>> /\ op'[o].pc = "done"
  BY <1>0, ZenonT(40) DEF Done, Unstarted
<1> USE <1>0 DEF At, messageVars, runStepVars, queueVars, inputVars, session, Holding, BoxKept
<1>2. CASE SnapshotThrows(o) \/ BeforeStartThrows(o)
  BY <1>1, <1>2 DEF SnapshotThrows, BeforeStartThrows, Rejected
<1>3. CASE InjectThrows(o)
  <2>1. op'[o].inbox = <<>> /\ op'[o].pc = "failure"
    BY <1>3 DEF InjectThrows, OpType
  <2> QED
    BY <1>3, <2>1 DEF InjectThrows
<1>4. CASE MessagesThrow(o) \/ PrepareThrows(o) \/ NotifyThrows(o)
  <2>1. op[o].inbox = <<>> /\ Thrown(o) /\ UNCHANGED messageVars
    BY <1>4 DEF MessagesThrow, PrepareThrows, NotifyThrows
  <2> QED
    BY <2>1 DEF Thrown, OpType
<1>5. CASE TurnEndThrows(o)
  BY <1>5 DEF TurnEndThrows, OpType
<1>6. CASE SavePointThrows(o)
  BY <1>6 DEF SavePointThrows, OpType
<1>7. CASE FlushThrows(o)
  BY <1>7 DEF FlushThrows, OpType
<1> QED
  BY <1>2, <1>3, <1>4, <1>5, <1>6, <1>7 DEF OpThrows

(* Only the operation in flight has an inbox. *)
LEMMA OthersEmpty ==
  ASSUME PhaseInv, MessagesInv, NEW o \in Ops, InFlight(o), NEW q \in Ops, q # o
  PROVE  op[q].inbox = <<>> /\ Box(op[q]) = {}
<1>1. op[q].pc \notin Holding
  BY DEF PhaseInv, InFlight, Holding
<1>2. op[q].inbox = <<>>
  BY <1>1 DEF MessagesInv, InboxInv
<1> QED
  BY <1>2, SMTT(30) DEF Box, Range

(* The messages that are neither lost nor given back. *)
Known(r) == Range(delivered) \cup Waiting \cup Box(r)

(* MessagesInv through a step that moves messages of one operation. *)
LEMMA MovedInv ==
  ASSUME TypeOK, PhaseInv, MessagesInv, NEW o \in Ops, InFlight(o),
         \A q \in Ops \ {o} : op'[q] = op[q], UNCHANGED <<sent, cleared>>,
         QueueInv(steerQueue, "steer")', QueueInv(followUpQueue, "followUp")',
         QueueInv(nextTurnQueue, "nextTurn")', InOrder(delivered)', InboxInv(op'[o]),
         Ahead(Range(delivered'), Waiting'), Ahead(Range(delivered'), Box(op'[o])),
         Ahead(Box(op'[o]), Waiting'), Known(op[o])' \subseteq Known(op[o]),
         faults' = 0 => faults = 0 /\ Known(op[o])' = Known(op[o])
  PROVE  MessagesInv'
<1>1. ASSUME NEW q \in Ops, q # o PROVE op'[q] = op[q] /\ Box(op[q]) = {} /\ Box(op'[q]) = {}
  BY <1>1, OthersEmpty
<1>2. ASSUME NEW q \in Ops PROVE InboxInv(op[q])'
  <2>1. InboxInv(op'[q])
    BY <1>1 DEF MessagesInv
  <2> QED
    BY <2>1 DEF InboxInv
<1>3. /\ Ahead(Range(delivered), Waiting)' /\ Ahead(Range(delivered), Box(op[o]))'
      /\ Ahead(Box(op[o]), Waiting)'
  BY DEF Ahead
<1>4. cleared \cap Known(op[o]) = {}
  BY DEF MessagesInv, Known
<1>5. /\ (cleared \cap (Range(delivered) \cup Waiting) = {})'
      /\ (Box(op[o]) \cap cleared = {})'
  BY <1>4 DEF Known
<1>6. ASSUME NEW q \in Ops
      PROVE  (/\ Ahead(Range(delivered), Box(op[q])) /\ Ahead(Box(op[q]), Waiting)
              /\ Box(op[q]) \cap cleared = {})'
  <2>1. CASE q = o
    BY <1>3, <1>5, <2>1
  <2>2. CASE q # o
    BY <1>1, <2>2 DEF Ahead
  <2> QED
    BY <2>1, <2>2
<1>7. ASSUME faults' = 0, NEW m \in SentIds'
      PROVE  (m \in Range(delivered) \cup Waiting \cup cleared \/ \E q \in Ops : m \in Box(op[q]))'
  <2>1. m \in Range(delivered) \cup Waiting \cup cleared \/ \E q \in Ops : m \in Box(op[q])
    BY <1>7 DEF MessagesInv, SentIds
  <2>2. m \in Known(op[o]) \cup cleared
    BY <1>1, <2>1 DEF Known
  <2>3. m \in Known(op[o])' \cup cleared'
    BY <1>7, <2>2
  <2> QED
    BY <2>3 DEF Known
<1> QED
  BY <1>2, <1>3, <1>5, <1>6, <1>7 DEF MessagesInv

(* message_end: the first message of the inbox goes to the session. *)
LEMMA DeliverInv ==
  ASSUME TypeOK, PhaseInv, MessagesInv, NEW o \in Ops, Inject(o) \/ InjectThrows(o)
  PROVE  MessagesInv'
<1>0. /\ op \in [Ops -> OpType] /\ op[o] \in OpType /\ op[o].pc = "inject" /\ op[o].inbox # <<>>
      /\ op[o].inbox \in Seq(SentIds \cup {PromptMessage})
      /\ delivered \in Seq(SentIds) /\ SentIds \subseteq Nat /\ PromptMessage \notin SentIds
      /\ faults \in Nat /\ InFlight(o)
      /\ UNCHANGED <<sent, cleared, steerQueue, followUpQueue, nextTurnQueue>>
  BY Fields, SMTT(30)
  DEF TypeOK, SentIds, PromptMessage, Inject, InjectThrows, At, InFlight, runStepVars,
      queueVars, inputVars
<1>1. \A q \in Ops \ {o} : op'[q] = op[q]
  BY OthersStay DEF OpStep, OpThrows
<1> DEFINE box == op[o].inbox
           m == Head(box)
<1>2. /\ InjectThrows(o) => /\ faults' > 0 /\ faults' # 0
                            /\ op'[o].inbox = <<>> /\ op'[o].pc = "failure"
      /\ Inject(o) => faults' = faults /\ op'[o].inbox = Tail(box) /\ op'[o].pc = "inject"
      /\ Inject(o) \/ InjectThrows(o)
  <2>1. InjectThrows(o) => op'[o].inbox = <<>> /\ op'[o].pc = "failure"
    BY <1>0, SMTT(30) DEF InjectThrows, OpType
  <2>2. InjectThrows(o) => faults' > 0 /\ faults' # 0
    BY <1>0, SMTT(30) DEF InjectThrows, Fault
  <2>3. Inject(o) => faults' = faults /\ op'[o].inbox = Tail(box) /\ op'[o].pc = "inject"
    BY <1>0, SMTT(30) DEF Inject, OpType
  <2> QED
    BY <2>1, <2>2, <2>3
<1>3. CASE UNCHANGED delivered /\ InjectThrows(o)
  <2>1. BoxKept(o)
    BY <1>0, <1>2, <1>3 DEF BoxKept, messageVars, Holding
  <2> QED
    BY <1>1, <1>2, <1>3, <2>1, BoxKeptInv
<1>4. CASE delivered' = Appended(m)
  <2>1. /\ DOMAIN box = 1..Len(box) /\ Len(box) \in Nat /\ 1 \in DOMAIN box /\ m = box[1]
        /\ m \in SentIds \cup {PromptMessage}
        /\ Range(<<>>) = {} /\ DOMAIN <<>> = {}
    BY <1>0, SMTT(30) DEF Range
  <2>2. Range(box) \subseteq SentIds \cup {PromptMessage}
    BY <1>0, RangeOfSeq, ZenonT(40) DEF Range
  <2>3. /\ DOMAIN Tail(box) = 1..(Len(box) - 1) /\ Len(Tail(box)) = Len(box) - 1
        /\ \A i \in DOMAIN Tail(box) : i + 1 \in DOMAIN box /\ Tail(box)[i] = box[i + 1]
    BY <1>0, <2>1, SMTT(30)
  <2>4. Range(box) = Range(Tail(box)) \cup {m}
    <3>1. ASSUME NEW i \in DOMAIN box, i # 1 PROVE box[i] \in Range(Tail(box))
      <4>1. i - 1 \in DOMAIN Tail(box) /\ Tail(box)[i - 1] = box[i]
        BY <2>1, <2>3, <3>1, SMTT(30)
      <4> QED
        BY <4>1 DEF Range
    <3> HIDE DEF box, m
    <3> QED
      BY <2>1, <2>3, <3>1, ZenonT(40) DEF Range
  <2>5. /\ \A i, j \in DOMAIN box : i < j /\ box[j] # PromptMessage => box[i] < box[j]
        /\ \A i \in DOMAIN box : box[i] = PromptMessage => i = Len(box)
    BY DEF MessagesInv, InboxInv
  <2> HIDE DEF box, m
  <2>6. ASSUME NEW b \in Range(Tail(box)), b # PromptMessage PROVE m < b
    <3>1. PICK i \in DOMAIN Tail(box) : Tail(box)[i] = b
      BY DEF Range
    <3>2. i + 1 \in DOMAIN box /\ box[i + 1] = b /\ 1 < i + 1
      BY <2>3, <3>1, SMTT(30)
    <3> QED
      BY <2>1, <2>5, <2>6, <3>2
  <2>7. Range(op'[o].inbox) \subseteq Range(Tail(box))
    BY <1>2, <2>1
  <2>8. InboxInv(op'[o])
    <3>1. CASE Inject(o)
      <4> DEFINE rest == Tail(box)
      <4>1. op'[o].inbox = rest /\ op'[o].pc = "inject"
        BY <1>2, <3>1 DEF box
      <4>2. \A i \in DOMAIN rest : rest[i] = PromptMessage => i = Len(rest)
        BY <2>3, <2>5, SMTT(30)
      <4>3. \A i, j \in DOMAIN rest : i < j /\ rest[j] # PromptMessage => rest[i] < rest[j]
        BY <2>3, <2>5, SMTT(30)
      <4> HIDE DEF rest
      <4> QED
        BY <4>1, <4>2, <4>3 DEF InboxInv, Holding
    <3>2. CASE InjectThrows(o)
      BY <1>2, <2>1, <3>2 DEF InboxInv, Holding
    <3> QED
      BY <1>2, <3>1, <3>2
  <2>9. /\ Ahead(Range(delivered), Waiting) /\ Ahead(Range(delivered), Box(op[o]))
        /\ Ahead(Box(op[o]), Waiting) /\ InOrder(delivered)
    BY DEF MessagesInv
  <2>10. Box(op[o]) = Range(box) \ {PromptMessage}
    BY DEF Box, box
  <2>11. Waiting' = Waiting
    BY <1>0 DEF Waiting
  <2>12. Range(delivered') = IF m = PromptMessage THEN Range(delivered)
                             ELSE Range(delivered) \cup {m}
    <3>1. CASE m = PromptMessage
      BY <1>4, <3>1, ZenonT(40) DEF Appended
    <3>2. CASE m # PromptMessage
      <4>1. delivered' = Append(delivered, m)
        BY <1>4, <3>2 DEF Appended
      <4> QED
        BY <1>0, <3>2, <4>1, SMTT(30) DEF Range
    <3> QED
      BY <3>1, <3>2
  <2>13. /\ Ahead(Range(delivered'), Waiting')
         /\ Ahead(Range(delivered'), Box(op'[o]))
         /\ Ahead(Box(op'[o]), Waiting')
    <3>1. Box(op'[o]) \subseteq Box(op[o]) /\ \A b \in Box(op'[o]) : m < b
      BY <2>4, <2>6, <2>7, <2>10 DEF Box
    <3>2. m # PromptMessage => m \in Box(op[o])
      BY <2>4, <2>10
    <3> QED
      BY <2>9, <2>11, <2>12, <3>1, <3>2 DEF Ahead
  <2>14. InOrder(delivered)'
    <3>1. CASE m = PromptMessage
      BY <1>0, <1>4, <2>9, <3>1 DEF Appended, InOrder
    <3>2. CASE m # PromptMessage
      <4>1. delivered' = Append(delivered, m)
        BY <1>4, <3>2 DEF Appended
      <4>2. /\ Len(delivered) \in Nat /\ DOMAIN delivered = 1..Len(delivered)
            /\ DOMAIN delivered' = 1..(Len(delivered) + 1)
            /\ \A i \in DOMAIN delivered : delivered'[i] = delivered[i]
            /\ delivered'[Len(delivered) + 1] = m
        BY <1>0, <4>1, SMTT(30)
      <4>3. \A i \in DOMAIN delivered : sent[delivered[i]] = sent[m] => delivered[i] < m
        BY <2>4, <2>9, <2>10, <3>2, SMTT(30) DEF Ahead, Range
      <4>4. sent' = sent
        BY <1>0
      <4>5. ASSUME NEW i \in DOMAIN delivered', NEW j \in DOMAIN delivered', i < j,
                   sent[delivered'[i]] = sent[delivered'[j]]
            PROVE  delivered'[i] < delivered'[j]
        <5>1. i \in DOMAIN delivered
          BY <4>2, <4>5, SMTT(30)
        <5>2. CASE j \in DOMAIN delivered
          BY <2>9, <4>2, <4>5, <5>1, <5>2, ZenonT(40) DEF InOrder
        <5>3. CASE j = Len(delivered) + 1
          BY <4>2, <4>3, <4>5, <5>1, <5>3
        <5> QED
          BY <4>2, <5>2, <5>3, SMTT(30)
      <4> QED
        BY <4>4, <4>5, ZenonT(40) DEF InOrder
    <3> QED
      BY <3>1, <3>2
  <2>15. (QueueInv(steerQueue, "steer") /\ QueueInv(followUpQueue, "followUp")
         /\ QueueInv(nextTurnQueue, "nextTurn"))'
    BY <1>0 DEF MessagesInv, QueueInv
  <2>16. Known(op[o])' \subseteq Known(op[o])
    BY <2>4, <2>7, <2>10, <2>11, <2>12 DEF Known, Box
  <2>17. faults' = 0 => faults = 0 /\ Known(op[o])' = Known(op[o])
    <3>1. ASSUME faults' = 0 PROVE Inject(o) /\ faults = 0 /\ Range(op'[o].inbox) = Range(Tail(box))
      BY <1>2, <3>1
    <3> QED
      BY <2>4, <2>10, <2>11, <2>12, <3>1 DEF Known, Box
  <2> QED
    BY <1>0, <1>1, <2>8, <2>13, <2>14, <2>15, <2>16, <2>17, MovedInv, ZenonT(40)
<1> QED
  BY <1>2, <1>3, <1>4, ZenonT(40) DEF Inject, InjectThrows

(* The three queues are of different messages. *)
LEMMA QueuesApart ==
  ASSUME TypeOK, MessagesInv
  PROVE  /\ SentIds \subseteq Nat /\ PromptMessage \notin SentIds
         /\ Range(steerQueue) \subseteq SentIds /\ Range(followUpQueue) \subseteq SentIds
         /\ Range(nextTurnQueue) \subseteq SentIds /\ Range(delivered) \subseteq SentIds
         /\ \A m \in Range(steerQueue) : sent[m] = "steer"
         /\ \A m \in Range(followUpQueue) : sent[m] = "followUp"
         /\ \A m \in Range(nextTurnQueue) : sent[m] = "nextTurn"
<1>1. SentIds \subseteq Nat /\ PromptMessage \notin SentIds
  BY SMTT(30) DEF SentIds, PromptMessage
<1>2. /\ Range(steerQueue) \subseteq SentIds /\ Range(followUpQueue) \subseteq SentIds
      /\ Range(nextTurnQueue) \subseteq SentIds /\ Range(delivered) \subseteq SentIds
  BY RangeOfSeq DEF TypeOK, Range
<1> QED
  BY <1>1, <1>2 DEF MessagesInv, QueueInv

(* executeTurn takes the nextTurn queue, and puts the prompt behind it. *)
LEMMA TakeNextTurnInv ==
  ASSUME TypeOK, PhaseInv, MessagesInv, NEW o \in Ops, TakeNextTurn(o)
  PROVE  MessagesInv'
<1>0. /\ op \in [Ops -> OpType] /\ op[o] \in OpType /\ op[o].pc = "snapshot" /\ InFlight(o)
      /\ nextTurnQueue \in Seq(SentIds) /\ nextTurnQueue' = <<>>
      /\ UNCHANGED <<sent, cleared, steerQueue, followUpQueue, delivered, faults>>
  BY DEF TypeOK, TakeNextTurn, At, InFlight, inputVars, session
<1>1. \A q \in Ops \ {o} : op'[q] = op[q]
  BY OthersStay DEF OpStep
<1>2. op'[o].inbox = Append(nextTurnQueue, PromptMessage) /\ op'[o].pc \in {"taken", "before"}
  BY <1>0 DEF TakeNextTurn, OpType
<1>3. op[o].inbox = <<>> /\ Box(op[o]) = {} /\ Range(<<>>) = {} /\ DOMAIN <<>> = {}
  <2>1. op[o].pc \notin Holding /\ Range(<<>>) = {} /\ DOMAIN <<>> = {}
    BY <1>0, SMTT(30) DEF Holding, Range
  <2>2. op[o].inbox = <<>>
    BY <2>1 DEF MessagesInv, InboxInv
  <2> QED
    BY <2>1, <2>2 DEF Box
<1>4. Increasing(nextTurnQueue)
  BY DEF MessagesInv, QueueInv
<1> DEFINE box == op'[o].inbox
<1>5. /\ Len(nextTurnQueue) \in Nat /\ DOMAIN nextTurnQueue = 1..Len(nextTurnQueue)
      /\ DOMAIN box = 1..(Len(nextTurnQueue) + 1) /\ Len(box) = Len(nextTurnQueue) + 1
      /\ \A i \in DOMAIN nextTurnQueue : box[i] = nextTurnQueue[i] /\ nextTurnQueue[i] \in SentIds
      /\ box[Len(box)] = PromptMessage
  <2>1. SentIds \subseteq SentIds \cup {PromptMessage}
    OBVIOUS
  <2>2. nextTurnQueue \in Seq(SentIds \cup {PromptMessage})
    BY <1>0, <2>1, SeqMonotonic
  <2>3. /\ Len(nextTurnQueue) \in Nat /\ DOMAIN nextTurnQueue = 1..Len(nextTurnQueue)
        /\ \A i \in DOMAIN nextTurnQueue : nextTurnQueue[i] \in SentIds
    BY <1>0, SMTT(30)
  <2>4. /\ DOMAIN box = 1..(Len(nextTurnQueue) + 1) /\ Len(box) = Len(nextTurnQueue) + 1
        /\ \A i \in DOMAIN nextTurnQueue : box[i] = nextTurnQueue[i]
        /\ box[Len(nextTurnQueue) + 1] = PromptMessage
    <3>1. /\ PromptMessage \in SentIds \cup {PromptMessage}
          /\ box = Append(nextTurnQueue, PromptMessage)
      BY <1>2
    <3> HIDE DEF box
    <3>2. /\ Len(box) = Len(nextTurnQueue) + 1 /\ DOMAIN box = 1..(Len(nextTurnQueue) + 1)
          /\ \A i \in 1..Len(nextTurnQueue) : box[i] = nextTurnQueue[i]
          /\ box[Len(nextTurnQueue) + 1] = PromptMessage
      BY <2>2, <3>1, AppendParts, SMTT(30)
    <3> QED
      BY <2>3, <3>2
  <2> QED
    BY <2>3, <2>4
<1> HIDE DEF box
<1>6. Range(box) = Range(nextTurnQueue) \cup {PromptMessage}
  BY <1>5, SMTT(20) DEF Range
<1>7. Box(op'[o]) = Range(nextTurnQueue)
  BY <1>6, QueuesApart DEF Box, box
<1>8. InboxInv(op'[o])
  <2>1. \A i \in DOMAIN box : box[i] = PromptMessage => i = Len(box)
    BY <1>5, QueuesApart, SMTT(30)
  <2>2. ASSUME NEW i \in DOMAIN box, NEW j \in DOMAIN box, i < j, box[j] # PromptMessage
        PROVE  box[i] < box[j]
    BY <1>4, <1>5, <2>2, SMTT(30) DEF Increasing
  <2>3. box # <<>>
    BY <1>5, SMTT(30)
  <2> QED
    BY <1>2, <1>5, <1>7, <2>1, <2>2, <2>3, QueuesApart, ZenonT(40) DEF InboxInv, Holding, box
<1>9. Waiting = Range(steerQueue) \cup Range(followUpQueue) \cup Range(nextTurnQueue)
  BY DEF Waiting
<1>10. Waiting' = Range(steerQueue) \cup Range(followUpQueue)
  BY <1>0, <1>3 DEF Waiting
<1>11. (QueueInv(steerQueue, "steer") /\ QueueInv(followUpQueue, "followUp")
        /\ QueueInv(nextTurnQueue, "nextTurn") /\ InOrder(delivered))'
  BY <1>0, <1>3 DEF MessagesInv, QueueInv, InOrder, Increasing
<1>12. /\ Ahead(Range(delivered'), Waiting') /\ Ahead(Range(delivered'), Box(op'[o]))
  BY <1>0, <1>7, <1>9, <1>10, ZenonT(40) DEF MessagesInv, Ahead
<1>13. Ahead(Box(op'[o]), Waiting')
  BY <1>7, <1>10, QueuesApart DEF Ahead
<1>14. Known(op[o])' = Known(op[o])
  BY <1>0, <1>3, <1>7, <1>9, <1>10 DEF Known
<1> QED
  BY <1>0, <1>1, <1>8, <1>11, <1>12, <1>13, <1>14, MovedInv, ZenonT(40)

(* drainQueuedMessages takes the first messages of a queue: what holds of the
   inbox and of the rest. *)
LEMMA Drains ==
  ASSUME TypeOK, MessagesInv, NEW o \in Ops, NEW name \in {"steer", "followUp"},
         NEW q \in Seq(SentIds), q # <<>>, QueueInv(q, name), NEW n \in DrainCounts(q),
         Take(o, q, n), At(o, IF name = "steer" THEN "steer" ELSE "followUp")
  PROVE  LET r == SubSeq(q, n + 1, Len(q))
         IN  /\ InboxInv(op'[o]) /\ Increasing(r)
             /\ Range(q) = Box(op'[o]) \cup Range(r)
             /\ \A a \in Box(op'[o]), b \in Range(r) : a < b
<1>0. /\ op \in [Ops -> OpType] /\ op[o] \in OpType
      /\ SentIds \subseteq Nat /\ PromptMessage \notin SentIds
  BY QueuesApart DEF TypeOK
<1>1. n \in 1..Len(q) /\ Len(q) \in Nat /\ SubSeq(q, 1, n) \in Seq(SentIds)
  BY Taken
<1>2. op'[o].inbox = SubSeq(q, 1, n) /\ op'[o].pc = IF name = "steer" THEN "steered" ELSE "followed"
  BY <1>0, ZenonT(40) DEF Take, At, OpType
<1> DEFINE s == SubSeq(q, 1, n)
           r == SubSeq(q, n + 1, Len(q))
<1>3. /\ Increasing(s) /\ Increasing(r) /\ Range(q) = Range(s) \cup Range(r)
      /\ \A a \in Range(s), b \in Range(r) : a < b
  BY <1>0, <1>1, SplitQueue DEF QueueInv
<1>4. s \in Seq(SentIds) /\ op'[o].inbox = s
  BY <1>1, <1>2
<1> HIDE DEF s, r
<1>5. Range(s) \subseteq SentIds
  BY <1>4, RangeOfSeq DEF Range
<1>6. Box(op'[o]) = Range(s)
  BY <1>0, <1>4, <1>5 DEF Box
<1>7. \A i \in DOMAIN s : s[i] # PromptMessage
  BY <1>0, <1>5 DEF Range
<1>8. \A m \in Box(op'[o]) : sent[m] = name
  BY <1>3, <1>6 DEF QueueInv
<1>9. InboxInv(op'[o])
  BY <1>0, <1>2, <1>3, <1>4, <1>5, <1>7, <1>8 DEF InboxInv, Holding, Increasing
<1> QED
  BY <1>3, <1>6, <1>9 DEF r

(* getSteeringMessages and getFollowUpMessages move the head of a queue to the inbox. *)
LEMMA DrainInv ==
  ASSUME TypeOK, PhaseInv, MessagesInv, NEW o \in Ops, GetSteering(o) \/ GetFollowUp(o)
  PROVE  MessagesInv'
<1>0. /\ InFlight(o) /\ op[o].inbox = <<>>
      /\ steerQueue \in Seq(SentIds) /\ followUpQueue \in Seq(SentIds)
      /\ UNCHANGED <<sent, cleared, nextTurnQueue, delivered, faults>>
  BY DEF TypeOK, GetSteering, GetFollowUp, At, InFlight, MessagesInv, InboxInv, Holding,
     inputVars, session
<1>1. \A q \in Ops \ {o} : op'[q] = op[q]
  BY OthersStay DEF OpStep
<1>2. Box(op[o]) = {}
  BY <1>0, SMTT(30) DEF Box, Range
<1>3. /\ QueueInv(steerQueue, "steer") /\ QueueInv(followUpQueue, "followUp")
      /\ QueueInv(nextTurnQueue, "nextTurn") /\ InOrder(delivered)
      /\ Ahead(Range(delivered), Waiting)
  BY DEF MessagesInv
<1>4. Waiting = Range(steerQueue) \cup Range(followUpQueue) \cup Range(nextTurnQueue)
  BY DEF Waiting
<1>5. CASE GetSteering(o)
  <2>1. PICK n \in DrainCounts(steerQueue) :
          /\ Take(o, steerQueue, n) /\ At(o, "steer") /\ steerQueue # <<>>
          /\ steerQueue' = SubSeq(steerQueue, n + 1, Len(steerQueue))
          /\ followUpQueue' = followUpQueue
    BY <1>5 DEF GetSteering
  <2>2. /\ InboxInv(op'[o]) /\ Increasing(steerQueue')
        /\ Range(steerQueue) = Box(op'[o]) \cup Range(steerQueue')
        /\ \A a \in Box(op'[o]), b \in Range(steerQueue') : a < b
    BY <1>0, <1>3, <2>1, Drains
  <2>3. Waiting' = Range(steerQueue') \cup Range(followUpQueue) \cup Range(nextTurnQueue)
    BY <1>0, <2>1 DEF Waiting
  <2>4. (QueueInv(steerQueue, "steer") /\ QueueInv(followUpQueue, "followUp")
         /\ QueueInv(nextTurnQueue, "nextTurn") /\ InOrder(delivered))'
    BY <1>0, <1>3, <2>1, <2>2 DEF QueueInv, InOrder
  <2>5. /\ Ahead(Range(delivered'), Waiting') /\ Ahead(Range(delivered'), Box(op'[o]))
    BY <1>0, <1>3, <1>4, <2>2, <2>3 DEF Ahead
  <2>6. Ahead(Box(op'[o]), Waiting')
    <3>1. \A a \in Box(op'[o]) : sent[a] = "steer"
      BY <2>2, QueuesApart
    <3> QED
      BY <2>2, <2>3, <3>1, QueuesApart DEF Ahead
  <2>7. Known(op[o])' = Known(op[o])
    BY <1>0, <1>2, <1>4, <2>2, <2>3 DEF Known
  <2> QED
    BY <1>0, <1>1, <2>2, <2>4, <2>5, <2>6, <2>7, MovedInv, ZenonT(40)
<1>6. CASE GetFollowUp(o)
  <2>1. PICK n \in DrainCounts(followUpQueue) :
          /\ Take(o, followUpQueue, n) /\ At(o, "followUp") /\ followUpQueue # <<>>
          /\ followUpQueue' = SubSeq(followUpQueue, n + 1, Len(followUpQueue))
          /\ steerQueue' = steerQueue
    BY <1>6 DEF GetFollowUp
  <2>2. /\ InboxInv(op'[o]) /\ Increasing(followUpQueue')
        /\ Range(followUpQueue) = Box(op'[o]) \cup Range(followUpQueue')
        /\ \A a \in Box(op'[o]), b \in Range(followUpQueue') : a < b
    BY <1>0, <1>3, <2>1, Drains
  <2>3. Waiting' = Range(steerQueue) \cup Range(followUpQueue') \cup Range(nextTurnQueue)
    BY <1>0, <2>1 DEF Waiting
  <2>4. (QueueInv(steerQueue, "steer") /\ QueueInv(followUpQueue, "followUp")
         /\ QueueInv(nextTurnQueue, "nextTurn") /\ InOrder(delivered))'
    BY <1>0, <1>3, <2>1, <2>2 DEF QueueInv, InOrder
  <2>5. /\ Ahead(Range(delivered'), Waiting') /\ Ahead(Range(delivered'), Box(op'[o]))
    BY <1>0, <1>3, <1>4, <2>2, <2>3 DEF Ahead
  <2>6. Ahead(Box(op'[o]), Waiting')
    <3>1. \A a \in Box(op'[o]) : sent[a] = "followUp"
      BY <2>2, QueuesApart
    <3> QED
      BY <2>2, <2>3, <3>1, QueuesApart DEF Ahead
  <2>7. Known(op[o])' = Known(op[o])
    BY <1>0, <1>2, <1>4, <2>2, <2>3 DEF Known
  <2> QED
    BY <1>0, <1>1, <2>2, <2>4, <2>5, <2>6, <2>7, MovedInv, ZenonT(40)
<1> QED
  BY <1>5, <1>6

(* The messages of an inbox that go back to a queue. *)
LEMMA GivesBack ==
  ASSUME TypeOK, MessagesInv, NEW o \in Ops, op[o].pc \in {"taken", "steered", "followed"}
  PROVE  LET s == IF op[o].pc = "taken" THEN SubSeq(op[o].inbox, 1, Len(op[o].inbox) - 1)
                  ELSE op[o].inbox
         IN  s \in Seq(SentIds) /\ Increasing(s) /\ Range(s) = Box(op[o])
<1> DEFINE box == op[o].inbox
<1>1. box \in Seq(SentIds \cup {PromptMessage})
  BY Fields DEF TypeOK
<1>2. /\ Len(box) \in Nat /\ DOMAIN box = 1..Len(box)
      /\ \A i \in DOMAIN box : box[i] \in SentIds \cup {PromptMessage}
  BY <1>1, SMTT(30)
<1>3. InboxInv(op[o]) /\ Box(op[o]) = Range(box) \ {PromptMessage}
  BY DEF MessagesInv, Box
<1>4. /\ \A i \in DOMAIN box : box[i] = PromptMessage => i = Len(box)
      /\ \A i, j \in DOMAIN box : i < j /\ box[j] # PromptMessage => box[i] < box[j]
  BY <1>3 DEF InboxInv
<1>5. CASE op[o].pc = "taken"
  <2>1. box # <<>> /\ box[Len(box)] = PromptMessage
    BY <1>3, <1>5 DEF InboxInv
  <2>2. Len(box) > 0
    BY <1>1, <2>1, SMTT(30)
  <2> DEFINE s == SubSeq(box, 1, Len(box) - 1)
  <2> HIDE DEF box
  <2>3. \A i \in 1..(Len(box) - 1) : box[i] \in SentIds
    BY <1>2, <1>4, <2>2, SMTT(30)
  <2>4. /\ s \in Seq(SentIds) /\ DOMAIN s = 1..(Len(box) - 1)
        /\ \A i \in DOMAIN s : s[i] = box[i]
    <3>1. Len(box) - 1 \in Nat /\ Len(box) - 1 <= Len(box) /\ DOMAIN box = 1..Len(box)
      BY <1>2, <2>2, SMTT(30)
    <3>2. /\ s \in Seq(SentIds \cup {PromptMessage}) /\ Len(s) = Len(box) - 1
          /\ \A i \in 1..(Len(box) - 1) : s[i] = box[i]
      BY <1>1, <3>1, SMTT(30)
    <3>3. DOMAIN s = 1..(Len(box) - 1)
      BY <3>2, SMTT(30)
    <3>4. s = [i \in 1..(Len(box) - 1) |-> s[i]] /\ \A i \in 1..(Len(box) - 1) : s[i] \in SentIds
      BY <2>3, <3>2, <3>3, SMTT(30)
    <3>5. s \in Seq(SentIds)
      BY <3>1, <3>4, SMTT(30)
    <3> QED
      BY <3>2, <3>3, <3>5
  <2> HIDE DEF s
  <2>5. Increasing(s)
    BY <1>2, <1>4, <2>2, <2>4, SMTT(30) DEF Increasing
  <2>6. Range(s) = Range(box) \ {PromptMessage}
    <3>1. \A i \in DOMAIN s : s[i] # PromptMessage
      BY <1>2, <1>4, <2>2, <2>4, SMTT(30)
    <3>2. \A i \in DOMAIN box : i \in DOMAIN s \/ i = Len(box)
      BY <1>2, <2>2, <2>4, SMTT(30)
    <3>3. \A i \in DOMAIN s : i \in DOMAIN box
      BY <1>2, <2>2, <2>4, SMTT(30)
    <3> QED
      BY <2>1, <2>4, <3>1, <3>2, <3>3, ZenonT(40) DEF Range
  <2> QED
    BY <1>3, <1>5, <2>4, <2>5, <2>6 DEF s, box
<1>6. CASE op[o].pc # "taken"
  <2>1. PromptMessage \notin Range(box)
    BY <1>3, <1>6 DEF InboxInv
  <2> HIDE DEF box
  <2>2. \A i \in DOMAIN box : box[i] # PromptMessage
    BY <2>1 DEF Range
  <2>3. box \in Seq(SentIds)
    <3>1. \A i \in 1..Len(box) : box[i] \in SentIds
      BY <1>2, <2>2
    <3> QED
      BY <1>1, <1>2, <3>1, SMTT(30)
  <2>4. Increasing(box)
    BY <1>4, <2>2 DEF Increasing
  <2> QED
    BY <1>3, <1>6, <2>1, <2>3, <2>4 DEF box
<1> QED
  BY <1>5, <1>6

(* They are the first of their queue again. *)
LEMMA GoesBack ==
  ASSUME TypeOK, MessagesInv, NEW o \in Ops, NEW q \in Seq(SentIds), NEW s \in Seq(SentIds),
         NEW name, QueueInv(q, name), Range(q) \subseteq Waiting, Increasing(s),
         Range(s) = Box(op[o]), \A m \in Box(op[o]) : sent[m] = name
  PROVE  QueueInv(s \o q, name) /\ Range(s \o q) = Box(op[o]) \cup Range(q)
<1>1. SentIds \subseteq Nat
  BY QueuesApart
<1>2. \A a \in Range(s), b \in Range(q) : a < b
  BY SMTT(30) DEF QueueInv, MessagesInv, Ahead
<1>3. Increasing(s \o q) /\ Range(s \o q) = Range(s) \cup Range(q)
  <2>1. Increasing(q)
    BY DEF QueueInv
  <2>2. Increasing(s \o q)
    BY <1>1, <1>2, <2>1, JoinQueue
  <2>3. Range(s \o q) = Range(s) \cup Range(q)
    <3>1. s \in Seq(SentIds) /\ q \in Seq(SentIds)
      OBVIOUS
    <3> QED
      BY <3>1, RangeConcat, SMTT(30)
  <2> QED
    BY <2>2, <2>3
<1> QED
  BY <1>3 DEF QueueInv

(* A failing queue_update puts the messages of the next turn back. *)
LEMMA TakeThrowsInv ==
  ASSUME TypeOK, PhaseInv, MessagesInv, NEW o \in Ops, TakeThrows(o)
  PROVE  MessagesInv'
<1>0. /\ op \in [Ops -> OpType] /\ op[o].pc = "taken" /\ InFlight(o) /\ faults \in Nat
      /\ nextTurnQueue \in Seq(SentIds)
      /\ UNCHANGED <<sent, cleared, steerQueue, followUpQueue, delivered>>
  BY DEF TypeOK, TakeThrows, At, InFlight, inputVars, session
<1>1. \A q \in Ops \ {o} : op'[q] = op[q]
  BY OthersStay DEF OpThrows
<1>2. op'[o].inbox = <<>> /\ op'[o].pc = "done" /\ faults' # 0
  BY <1>0, SMTT(30) DEF TakeThrows, Rejected, Done, Unstarted, Fault
<1>3. Box(op'[o]) = {} /\ InboxInv(op'[o])
  <2>1. DOMAIN <<>> = {} /\ Range(<<>>) = {}
    BY SMTT(30) DEF Range
  <2> QED
    BY <1>2, <2>1 DEF Box, InboxInv, Holding
<1> DEFINE s == SubSeq(op[o].inbox, 1, Len(op[o].inbox) - 1)
<1>4. s \in Seq(SentIds) /\ Increasing(s) /\ Range(s) = Box(op[o])
  BY <1>0, GivesBack
<1>5. nextTurnQueue' = s \o nextTurnQueue
  BY DEF TakeThrows
<1> HIDE DEF s
<1>6. \A m \in Box(op[o]) : sent[m] = "nextTurn"
  BY <1>0 DEF MessagesInv, InboxInv
<1>7. QueueInv(nextTurnQueue, "nextTurn") /\ Range(nextTurnQueue) \subseteq Waiting
  BY DEF MessagesInv, Waiting
<1>8. /\ QueueInv(s \o nextTurnQueue, "nextTurn")
      /\ Range(s \o nextTurnQueue) = Box(op[o]) \cup Range(nextTurnQueue)
  BY <1>0, <1>4, <1>6, <1>7, GoesBack
<1>9. (QueueInv(steerQueue, "steer") /\ QueueInv(followUpQueue, "followUp")
       /\ QueueInv(nextTurnQueue, "nextTurn") /\ InOrder(delivered))'
  BY <1>0, <1>5, <1>8 DEF MessagesInv, QueueInv, InOrder
<1>10. Waiting' = Waiting \cup Box(op[o])
  BY <1>0, <1>5, <1>8 DEF Waiting
<1>11. Ahead(Range(delivered'), Waiting')
  BY <1>0, <1>10 DEF MessagesInv, Ahead
<1>12. Ahead(Range(delivered'), Box(op'[o])) /\ Ahead(Box(op'[o]), Waiting')
  BY <1>3 DEF Ahead
<1>13. Known(op[o])' \subseteq Known(op[o])
  BY <1>0, <1>3, <1>10 DEF Known
<1> QED
  BY <1>0, <1>1, <1>2, <1>3, <1>9, <1>11, <1>12, <1>13, MovedInv, ZenonT(40)

(* A failing queue_update puts drained messages back in front of their queue. *)
LEMMA DrainThrowsInv ==
  ASSUME TypeOK, PhaseInv, MessagesInv, NEW o \in Ops, DrainThrows(o)
  PROVE  MessagesInv'
<1>0. /\ op \in [Ops -> OpType] /\ op[o] \in OpType /\ op[o].pc \in {"steered", "followed"}
      /\ InFlight(o) /\ faults \in Nat
      /\ steerQueue \in Seq(SentIds) /\ followUpQueue \in Seq(SentIds)
      /\ UNCHANGED <<sent, cleared, nextTurnQueue, delivered>>
  BY DEF TypeOK, DrainThrows, InFlight, inputVars, session
<1>1. \A q \in Ops \ {o} : op'[q] = op[q]
  BY OthersStay DEF OpThrows
<1>2. op'[o].inbox = <<>> /\ op'[o].pc = "failure" /\ faults' # 0
  <2>1. op'[o].inbox = <<>> /\ op'[o].pc = "failure"
    BY <1>0 DEF DrainThrows, OpType
  <2> QED
    BY <1>0, <2>1, SMTT(30) DEF DrainThrows, Fault
<1>3. Box(op'[o]) = {} /\ InboxInv(op'[o])
  <2>1. DOMAIN <<>> = {} /\ Range(<<>>) = {}
    BY SMTT(30) DEF Range
  <2> QED
    BY <1>2, <2>1 DEF Box, InboxInv, Holding
<1> DEFINE s == op[o].inbox
<1>4. s \in Seq(SentIds) /\ Increasing(s) /\ Range(s) = Box(op[o])
  BY <1>0, GivesBack
<1>5. \/ UNCHANGED <<steerQueue, followUpQueue>>
      \/ op[o].pc = "steered" /\ steerQueue' = s \o steerQueue /\ UNCHANGED followUpQueue
      \/ op[o].pc = "followed" /\ followUpQueue' = s \o followUpQueue /\ UNCHANGED steerQueue
  BY <1>0 DEF DrainThrows
<1> HIDE DEF s
<1>6. /\ op[o].pc = "steered" => \A m \in Box(op[o]) : sent[m] = "steer"
      /\ op[o].pc = "followed" => \A m \in Box(op[o]) : sent[m] = "followUp"
  BY DEF MessagesInv, InboxInv
<1>7. /\ QueueInv(steerQueue, "steer") /\ Range(steerQueue) \subseteq Waiting
      /\ QueueInv(followUpQueue, "followUp") /\ Range(followUpQueue) \subseteq Waiting
  BY DEF MessagesInv, Waiting
<1>8. op[o].pc = "steered" =>
        /\ QueueInv(s \o steerQueue, "steer")
        /\ Range(s \o steerQueue) = Box(op[o]) \cup Range(steerQueue)
  BY <1>0, <1>4, <1>6, <1>7, GoesBack
<1>9. op[o].pc = "followed" =>
        /\ QueueInv(s \o followUpQueue, "followUp")
        /\ Range(s \o followUpQueue) = Box(op[o]) \cup Range(followUpQueue)
  BY <1>0, <1>4, <1>6, <1>7, GoesBack
<1>10. /\ QueueInv(steerQueue', "steer") /\ QueueInv(followUpQueue', "followUp")
       /\ Waiting' \subseteq Waiting \cup Box(op[o])
  BY <1>0, <1>5, <1>7, <1>8, <1>9 DEF Waiting
<1>11. (QueueInv(steerQueue, "steer") /\ QueueInv(followUpQueue, "followUp")
        /\ QueueInv(nextTurnQueue, "nextTurn") /\ InOrder(delivered))'
  BY <1>0, <1>10 DEF MessagesInv, QueueInv, InOrder
<1>12. Ahead(Range(delivered'), Waiting')
  BY <1>0, <1>10 DEF MessagesInv, Ahead
<1>13. Ahead(Range(delivered'), Box(op'[o])) /\ Ahead(Box(op'[o]), Waiting')
  BY <1>3 DEF Ahead
<1>14. Known(op[o])' \subseteq Known(op[o])
  BY <1>0, <1>3, <1>10 DEF Known
<1> QED
  BY <1>0, <1>1, <1>2, <1>3, <1>11, <1>12, <1>13, <1>14, MovedInv, ZenonT(40)

(* steer, followUp and nextTurn add a message behind all others. *)
LEMMA SendInv ==
  ASSUME TypeInv, MessagesInv, Steer \/ FollowUp \/ NextTurn
  PROVE  MessagesInv'
<1> DEFINE m == Len(sent) + 1
<1>0. /\ sent \in Seq({"steer", "followUp", "nextTurn"}) /\ op \in [Ops -> OpType]
      /\ steerQueue \in Seq(SentIds) /\ followUpQueue \in Seq(SentIds)
      /\ nextTurnQueue \in Seq(SentIds) /\ cleared \subseteq SentIds
  BY DEF TypeInv, TypeOK
<1>1. UNCHANGED <<op, delivered, cleared, faults>>
  BY DEF Steer, FollowUp, NextTurn, outsideVars, session
<1>2. TypeOK
  BY DEF TypeInv
<1>3. PICK name \in {"steer", "followUp", "nextTurn"} :
        /\ Send(name)
        /\ steerQueue' = IF name = "steer" THEN Append(steerQueue, m) ELSE steerQueue
        /\ followUpQueue' = IF name = "followUp" THEN Append(followUpQueue, m) ELSE followUpQueue
        /\ nextTurnQueue' = IF name = "nextTurn" THEN Append(nextTurnQueue, m) ELSE nextTurnQueue
  BY DEF Steer, FollowUp, NextTurn
<1>4. /\ m \in Nat /\ \A a \in SentIds : a < m /\ a \in Nat /\ sent'[a] = sent[a]
      /\ sent'[m] = name /\ SentIds' = SentIds \cup {m}
      /\ SentIds \subseteq Nat /\ m # PromptMessage
  BY <1>0, <1>3, SMTT(30) DEF Send, SentIds, PromptMessage
<1> HIDE DEF m
<1>5. ASSUME NEW q \in Seq(SentIds), Increasing(q)
      PROVE  /\ Increasing(Append(q, m)) /\ Range(Append(q, m)) = Range(q) \cup {m}
             /\ Range(q) \subseteq SentIds
  <2>1. Range(q) \subseteq SentIds
    BY <1>5, RangeOfSeq DEF Range
  <2> QED
    BY <1>4, <1>5, <2>1, AddMessage
<1>6. /\ QueueInv(steerQueue, "steer") /\ QueueInv(followUpQueue, "followUp")
      /\ QueueInv(nextTurnQueue, "nextTurn") /\ InOrder(delivered)
  BY DEF MessagesInv
<1>7. /\ Increasing(steerQueue) /\ Increasing(followUpQueue) /\ Increasing(nextTurnQueue)
  BY <1>6 DEF QueueInv
<1>8. /\ Increasing(steerQueue') /\ Increasing(followUpQueue') /\ Increasing(nextTurnQueue')
  BY <1>0, <1>3, <1>5, <1>7
<1>9. /\ Range(steerQueue') = Range(steerQueue) \cup (IF name = "steer" THEN {m} ELSE {})
      /\ Range(followUpQueue') = Range(followUpQueue) \cup (IF name = "followUp" THEN {m} ELSE {})
      /\ Range(nextTurnQueue') = Range(nextTurnQueue) \cup (IF name = "nextTurn" THEN {m} ELSE {})
  BY <1>0, <1>3, <1>5, <1>7
<1>10. (QueueInv(steerQueue, "steer") /\ QueueInv(followUpQueue, "followUp")
        /\ QueueInv(nextTurnQueue, "nextTurn"))'
  <2>1. /\ \A a \in Range(steerQueue') : sent'[a] = "steer"
        /\ \A a \in Range(followUpQueue') : sent'[a] = "followUp"
        /\ \A a \in Range(nextTurnQueue') : sent'[a] = "nextTurn"
    <3>0. /\ \A a \in Range(steerQueue) : a \in SentIds /\ sent[a] = "steer"
          /\ \A a \in Range(followUpQueue) : a \in SentIds /\ sent[a] = "followUp"
          /\ \A a \in Range(nextTurnQueue) : a \in SentIds /\ sent[a] = "nextTurn"
      BY <1>0, <1>5, <1>6, <1>7 DEF QueueInv
    <3>4. sent'[m] = name /\ \A a \in SentIds : sent'[a] = sent[a]
      BY <1>4
    <3>1. ASSUME NEW a \in Range(steerQueue') PROVE sent'[a] = "steer"
      <4>1. a \in Range(steerQueue) \/ (name = "steer" /\ a = m)
        BY <1>9, <3>1
      <4>2. CASE a \in Range(steerQueue)
        BY <3>0, <3>4, <4>2
      <4>3. CASE name = "steer" /\ a = m
        BY <3>4, <4>3
      <4> QED
        BY <4>1, <4>2, <4>3
    <3>2. ASSUME NEW a \in Range(followUpQueue') PROVE sent'[a] = "followUp"
      <4>1. a \in Range(followUpQueue) \/ (name = "followUp" /\ a = m)
        BY <1>9, <3>2
      <4>2. CASE a \in Range(followUpQueue)
        BY <3>0, <3>4, <4>2
      <4>3. CASE name = "followUp" /\ a = m
        BY <3>4, <4>3
      <4> QED
        BY <4>1, <4>2, <4>3
    <3>3. ASSUME NEW a \in Range(nextTurnQueue') PROVE sent'[a] = "nextTurn"
      <4>1. a \in Range(nextTurnQueue) \/ (name = "nextTurn" /\ a = m)
        BY <1>9, <3>3
      <4>2. CASE a \in Range(nextTurnQueue)
        BY <3>0, <3>4, <4>2
      <4>3. CASE name = "nextTurn" /\ a = m
        BY <3>4, <4>3
      <4> QED
        BY <4>1, <4>2, <4>3
    <3> QED
      BY <3>1, <3>2, <3>3
  <2> QED
    BY <1>8, <2>1 DEF QueueInv
<1>11. /\ Waiting' = Waiting \cup {m}
       /\ Waiting \subseteq SentIds /\ Range(delivered) \subseteq SentIds
  BY <1>2, <1>9, QueuesApart DEF Waiting
<1>12. \A i \in DOMAIN delivered : delivered[i] \in SentIds
  BY <1>11 DEF Range
<1>13. InOrder(delivered)'
  <2>1. SUFFICES ASSUME NEW i \in DOMAIN delivered, NEW j \in DOMAIN delivered, i < j,
                        sent'[delivered[i]] = sent'[delivered[j]]
                 PROVE  delivered[i] < delivered[j]
    BY <1>1 DEF InOrder
  <2>2. sent[delivered[i]] = sent[delivered[j]]
    BY <1>4, <1>12, <2>1
  <2> QED
    BY <1>6, <2>1, <2>2 DEF InOrder
<1>14. ASSUME NEW o \in Ops PROVE Box(op[o]) \subseteq SentIds
  <2>1. op[o].inbox \in Seq(SentIds \cup {PromptMessage})
    BY <1>0, Fields
  <2>2. Range(op[o].inbox) \subseteq SentIds \cup {PromptMessage}
    BY <2>1, RangeOfSeq DEF Range
  <2> QED
    BY <2>2 DEF Box
<1>15. ASSUME NEW o \in Ops PROVE InboxInv(op[o])'
  <2>1. InboxInv(op[o]) /\ Box(op[o]) \subseteq SentIds
    BY <1>14 DEF MessagesInv
  <2> QED
    BY <1>1, <1>4, <2>1 DEF InboxInv
<1>16. Ahead(Range(delivered), Waiting)' /\ (cleared \cap (Range(delivered) \cup Waiting) = {})'
  <2>1. Ahead(Range(delivered), Waiting) /\ cleared \cap (Range(delivered) \cup Waiting) = {}
    BY DEF MessagesInv
  <2>2. Ahead(Range(delivered), Waiting)'
    BY <1>1, <1>4, <1>11, <2>1, ZenonT(40) DEF Ahead
  <2>3. m \notin SentIds
    BY <1>4, SMTT(30)
  <2> QED
    BY <1>0, <1>1, <1>11, <2>1, <2>2, <2>3, ZenonT(40)
<1>17. ASSUME NEW o \in Ops
       PROVE  (/\ Ahead(Range(delivered), Box(op[o])) /\ Ahead(Box(op[o]), Waiting)
               /\ Box(op[o]) \cap cleared = {})'
  <2>1. /\ Ahead(Range(delivered), Box(op[o])) /\ Ahead(Box(op[o]), Waiting)
        /\ Box(op[o]) \cap cleared = {} /\ Box(op[o]) \subseteq SentIds
    BY <1>14 DEF MessagesInv
  <2> QED
    BY <1>1, <1>4, <1>11, <2>1, ZenonT(40) DEF Ahead
<1>18. ASSUME faults' = 0, NEW a \in SentIds'
       PROVE  (a \in Range(delivered) \cup Waiting \cup cleared \/ \E o \in Ops : a \in Box(op[o]))'
  BY <1>1, <1>4, <1>11, <1>18 DEF MessagesInv
<1> QED
  BY <1>10, <1>13, <1>15, <1>16, <1>17, <1>18, ZenonT(40) DEF MessagesInv

(* abort() returns the messages of two queues to its caller. *)
LEMMA AbortInv ==
  ASSUME TypeOK, MessagesInv, Abort
  PROVE  MessagesInv'
<1>1. /\ UNCHANGED <<op, delivered, sent, faults, nextTurnQueue>>
      /\ steerQueue' = <<>> /\ followUpQueue' = <<>>
      /\ cleared' = cleared \cup Range(steerQueue) \cup Range(followUpQueue)
  BY DEF Abort, session
<1>2. Range(<<>>) = {} /\ DOMAIN <<>> = {}
  BY SMTT(30) DEF Range
<1>3. Waiting' = Range(nextTurnQueue)
  BY <1>1, <1>2 DEF Waiting
<1>4. Waiting = Range(steerQueue) \cup Range(followUpQueue) \cup Range(nextTurnQueue)
  BY DEF Waiting
<1>5. (QueueInv(steerQueue, "steer") /\ QueueInv(followUpQueue, "followUp")
       /\ QueueInv(nextTurnQueue, "nextTurn") /\ InOrder(delivered))'
  BY <1>1, <1>2 DEF MessagesInv, QueueInv, Increasing, InOrder
<1>6. ASSUME NEW o \in Ops PROVE InboxInv(op[o])'
  BY <1>1 DEF MessagesInv, InboxInv
<1>7. ASSUME NEW A, NEW B, Ahead(A, B), A \subseteq Nat PROVE A \cap B = {}
  <2>1. \A a \in A : a \notin B
    BY <1>7, SMTT(30) DEF Ahead
  <2> QED
    BY <2>1
<1>8. /\ Range(delivered) \subseteq Nat /\ Range(delivered) \cap Waiting = {}
  BY <1>7, QueuesApart DEF MessagesInv
<1>9. Range(nextTurnQueue) \cap (Range(steerQueue) \cup Range(followUpQueue)) = {}
  BY QueuesApart
<1>10. /\ Ahead(Range(delivered), Waiting)' /\ (cleared \cap (Range(delivered) \cup Waiting) = {})'
  <2>1. cleared \cap (Range(delivered) \cup Waiting) = {} /\ Ahead(Range(delivered), Waiting)
    BY DEF MessagesInv
  <2>2. Ahead(Range(delivered), Waiting)'
    BY <1>1, <1>3, <1>4, <2>1 DEF Ahead
  <2> QED
    BY <1>1, <1>3, <1>4, <1>8, <1>9, <2>1, <2>2, ZenonT(40)
<1>11. ASSUME NEW o \in Ops
       PROVE  (/\ Ahead(Range(delivered), Box(op[o])) /\ Ahead(Box(op[o]), Waiting)
               /\ Box(op[o]) \cap cleared = {})'
  <2>1. /\ Ahead(Range(delivered), Box(op[o])) /\ Ahead(Box(op[o]), Waiting)
        /\ Box(op[o]) \cap cleared = {}
    BY DEF MessagesInv
  <2>2. Box(op[o]) \subseteq Nat
    <3>1. op[o].inbox \in Seq(SentIds \cup {PromptMessage})
      BY Fields DEF TypeOK
    <3>2. Range(op[o].inbox) \subseteq SentIds \cup {PromptMessage}
      BY <3>1, RangeOfSeq DEF Range
    <3> QED
      BY <3>2, SMTT(30) DEF Box, SentIds
  <2>3. Box(op[o]) \cap Waiting = {}
    BY <1>7, <2>1, <2>2
  <2>4. Box(op[o])' = Box(op[o])
    BY <1>1
  <2>5. Ahead(Range(delivered), Box(op[o]))' /\ Ahead(Box(op[o]), Waiting)'
    BY <1>1, <1>3, <1>4, <2>1, <2>4 DEF Ahead
  <2> QED
    BY <1>1, <1>4, <2>1, <2>3, <2>4, <2>5, ZenonT(40)
<1>12. ASSUME faults' = 0, NEW m \in SentIds'
       PROVE  (m \in Range(delivered) \cup Waiting \cup cleared \/ \E o \in Ops : m \in Box(op[o]))'
  <2>1. m \in Range(delivered) \cup Waiting \cup cleared \/ \E o \in Ops : m \in Box(op[o])
    BY <1>1, <1>12 DEF MessagesInv, SentIds
  <2> QED
    BY <1>1, <1>3, <1>4, <2>1
<1> QED
  BY <1>5, <1>6, <1>10, <1>11, <1>12 DEF MessagesInv

(* MessagesInv is inductive. *)
LEMMA MessagesInvInit ==
  Init => MessagesInv
<1> SUFFICES ASSUME Init PROVE MessagesInv
  OBVIOUS
<1>1. /\ steerQueue = <<>> /\ followUpQueue = <<>> /\ nextTurnQueue = <<>> /\ delivered = <<>>
      /\ cleared = {} /\ sent = <<>> /\ \A o \in Ops : op[o].inbox = <<>> /\ op[o].pc = "unstarted"
  BY DEF Init, Unstarted
<1>2. Range(<<>>) = {} /\ DOMAIN <<>> = {} /\ SentIds = {}
  BY <1>1, SMTT(30) DEF Range, SentIds
<1>3. Waiting = {} /\ \A o \in Ops : Box(op[o]) = {}
  BY <1>1, <1>2 DEF Waiting, Box
<1>4. \A o \in Ops : InboxInv(op[o])
  BY <1>1, <1>2 DEF InboxInv, Holding
<1>5. /\ QueueInv(steerQueue, "steer") /\ QueueInv(followUpQueue, "followUp")
      /\ QueueInv(nextTurnQueue, "nextTurn") /\ InOrder(delivered)
  BY <1>1, <1>2 DEF QueueInv, Increasing, InOrder
<1> QED
  BY <1>1, <1>2, <1>3, <1>4, <1>5 DEF MessagesInv, Ahead

(* Every step of the harness keeps MessagesInv. *)
LEMMA MessagesInvStep ==
  ASSUME TypeInv, PhaseInv, MessagesInv, [Next]_vars
  PROVE  MessagesInv'
<1>0. TypeOK /\ faults \in Nat
  BY DEF TypeInv, TypeOK
<1>1. ASSUME NEW o \in Ops, Start(o) \/ OpStep(o) PROVE MessagesInv'
  <2>1. CASE TakeNextTurn(o) \/ Inject(o) \/ GetSteering(o) \/ GetFollowUp(o)
    BY <1>0, <2>1, TakeNextTurnInv, DeliverInv, DrainInv
  <2>2. CASE ~(TakeNextTurn(o) \/ Inject(o) \/ GetSteering(o) \/ GetFollowUp(o))
    <3>1. BoxKept(o)
      BY <1>0, <1>1, <2>2, OpStepBox
    <3> QED
      BY <1>0, <1>1, <3>1, OthersStay, ThrowsCount, BoxKeptInv
  <2> QED
    BY <2>1, <2>2
<1>2. ASSUME NEW o \in Ops, OpThrows(o) PROVE MessagesInv'
  <2>1. CASE TakeThrows(o) \/ DrainThrows(o) \/ InjectThrows(o)
    BY <1>0, <2>1, TakeThrowsInv, DrainThrowsInv, DeliverInv
  <2>2. CASE ~(TakeThrows(o) \/ DrainThrows(o) \/ InjectThrows(o))
    <3>1. BoxKept(o)
      BY <1>0, <1>2, <2>2, OpThrowsBox
    <3>2. faults' # 0
      BY <1>0, <1>2, ThrowsCount, SMTT(30)
    <3> QED
      BY <1>0, <1>2, <3>1, <3>2, OthersStay, BoxKeptInv
  <2> QED
    BY <2>1, <2>2
<1>3. CASE SessionWrite \/ AbortStep \/ UNCHANGED vars
  <2>1. UNCHANGED <<op, steerQueue, followUpQueue, nextTurnQueue, delivered, cleared, sent, faults>>
    BY <1>3
    DEF SessionWrite, AbortStep, AbortWaits, AbortReturns, outsideVars, queueVars, inputVars,
        session, vars
  <2> QED
    <3>1. UNCHANGED <<Waiting, SentIds>>
      BY <2>1 DEF Waiting, SentIds
    <3>2. (QueueInv(steerQueue, "steer") /\ QueueInv(followUpQueue, "followUp")
           /\ QueueInv(nextTurnQueue, "nextTurn") /\ InOrder(delivered))'
      BY <2>1 DEF MessagesInv, QueueInv, InOrder
    <3>3. \A o \in Ops : InboxInv(op[o])'
      BY <2>1 DEF MessagesInv, InboxInv
    <3>4. Ahead(Range(delivered), Waiting)' /\ (cleared \cap (Range(delivered) \cup Waiting) = {})'
      BY <2>1, <3>1 DEF MessagesInv, Ahead
    <3>5. \A o \in Ops : (/\ Ahead(Range(delivered), Box(op[o])) /\ Ahead(Box(op[o]), Waiting)
                          /\ Box(op[o]) \cap cleared = {})'
      BY <2>1, <3>1, ZenonT(40) DEF MessagesInv, Ahead
    <3>6. (faults = 0 => \A m \in SentIds :
             m \in Range(delivered) \cup Waiting \cup cleared \/ \E o \in Ops : m \in Box(op[o]))'
      BY <2>1, <3>1 DEF MessagesInv
    <3> QED
      BY <3>2, <3>3, <3>4, <3>5, <3>6 DEF MessagesInv
<1> QED
  BY <1>0, <1>1, <1>2, <1>3, SendInv, AbortInv, ZenonT(40) DEF Next

(* A message that a sequence does not repeat has at most one position in it. *)
LEMMA PositionsOnce ==
  ASSUME NEW s, NEW m, NEW place,
         \A i, j \in DOMAIN s : s[i] = m /\ s[j] = m => i = j
  PROVE  /\ \A p, q \in Positions(place, s, m) : p = q
         /\ Positions(place, s, m) # {} <=> m \in Range(s)
BY DEF Positions, Range

(* A queue in increasing order does not repeat its messages. *)
LEMMA IncreasingOnce ==
  ASSUME NEW T, T \subseteq Nat, NEW s \in Seq(T), Increasing(s)
  PROVE  \A i, j \in DOMAIN s : s[i] = s[j] => i = j
<1>1. s \in Seq(Nat)
  BY SeqMonotonic
<1> SUFFICES ASSUME NEW i \in DOMAIN s, NEW j \in DOMAIN s, s[i] = s[j] PROVE i = j
  OBVIOUS
<1>2. i \in Nat /\ j \in Nat /\ s[i] \in Nat
  BY <1>1, SMTT(30)
<1>3. ~(i < j) /\ ~(j < i)
  BY <1>2, SMTT(30) DEF Increasing
<1> QED
  BY <1>2, <1>3, SMTT(30)

(* A message has one place, or none once something has failed. *)
LEMMA QueuedHolds ==
  ASSUME TypeOK, PhaseInv, MessagesInv
  PROVE  QueuedInOnePlace
<1>0. /\ steerQueue \in Seq(SentIds) /\ followUpQueue \in Seq(SentIds)
      /\ nextTurnQueue \in Seq(SentIds) /\ delivered \in Seq(SentIds) /\ SentIds \subseteq Nat
      /\ Increasing(steerQueue) /\ Increasing(followUpQueue) /\ Increasing(nextTurnQueue)
      /\ InOrder(delivered) /\ PromptMessage \notin SentIds
  BY QueuesApart DEF TypeOK, MessagesInv, QueueInv
<1>1. \A i, j \in DOMAIN delivered : delivered[i] = delivered[j] => i = j
  <2> SUFFICES ASSUME NEW i \in DOMAIN delivered, NEW j \in DOMAIN delivered,
                      delivered[i] = delivered[j]
               PROVE  i = j
    OBVIOUS
  <2>1. delivered \in Seq(Nat)
    BY <1>0, SeqMonotonic
  <2>2. i \in Nat /\ j \in Nat /\ delivered[i] \in Nat /\ delivered[j] \in Nat
    BY <2>1, SMTT(30)
  <2>3. /\ i < j => delivered[i] < delivered[j]
        /\ j < i => delivered[j] < delivered[i]
    BY <1>0 DEF InOrder
  <2> QED
    BY <2>2, <2>3, SMTT(30)
<1>2. ASSUME NEW m \in SentIds
      PROVE  (\A p, q \in Places(m) : p = q) /\ (faults = 0 => Places(m) # {})
  <2> DEFINE steer == Positions("steer", steerQueue, m)
             follow == Positions("followUp", followUpQueue, m)
             next == Positions("nextTurn", nextTurnQueue, m)
             session1 == Positions("session", delivered, m)
             inbox(o) == Positions(o, op[o].inbox, m)
             given == {<<"cleared", i>> : i \in cleared \cap {m}}
             held == \E o \in Ops : m \in Box(op[o])
  <2>1. /\ (\A p, q \in steer : p = q) /\ (steer # {} <=> m \in Range(steerQueue))
        /\ (\A p, q \in follow : p = q) /\ (follow # {} <=> m \in Range(followUpQueue))
        /\ (\A p, q \in next : p = q) /\ (next # {} <=> m \in Range(nextTurnQueue))
    BY <1>0, IncreasingOnce, PositionsOnce
  <2>2. (\A p, q \in session1 : p = q) /\ (session1 # {} <=> m \in Range(delivered))
    BY <1>1, PositionsOnce
  <2>3. (\A p, q \in given : p = q) /\ (given # {} <=> m \in cleared)
    OBVIOUS
  <2>4. \A o \in Ops : m \in Range(op[o].inbox) <=> m \in Box(op[o])
    BY <1>0 DEF Box
  <2>5. ASSUME NEW o \in Ops
        PROVE  (\A p, q \in inbox(o) : p = q) /\ (inbox(o) # {} <=> m \in Box(op[o]))
    <3>1. op[o].inbox \in Seq(SentIds \cup {PromptMessage})
      BY Fields DEF TypeOK
    <3>2. ASSUME NEW i \in DOMAIN op[o].inbox, NEW j \in DOMAIN op[o].inbox,
                 op[o].inbox[i] = m, op[o].inbox[j] = m
          PROVE  i = j
      <4>1. i \in Nat /\ j \in Nat /\ m \in Nat /\ m # PromptMessage
        BY <1>0, <3>1, SMT
      <4>2. (i < j => m < m) /\ (j < i => m < m)
        <5>1. \A k, n \in DOMAIN op[o].inbox :
                k < n /\ op[o].inbox[n] # PromptMessage => op[o].inbox[k] < op[o].inbox[n]
          BY DEF MessagesInv, InboxInv
        <5> QED
          BY <3>2, <4>1, <5>1
      <4> QED
        BY <4>1, <4>2, SMTT(30)
    <3> QED
      BY <2>4, <3>2, PositionsOnce
  <2>6. \A o, q \in Ops : m \in Box(op[o]) /\ m \in Box(op[q]) => q = o
    <3> SUFFICES ASSUME NEW o \in Ops, m \in Box(op[o])
                 PROVE  \A q \in Ops : m \in Box(op[q]) => q = o
      OBVIOUS
    <3>1. op[o].inbox # <<>>
      BY SMTT(30) DEF Box, Range
    <3>2. op[o].pc \in Holding
      BY <3>1 DEF MessagesInv, InboxInv
    <3>3. InFlight(o)
      BY <3>2 DEF InFlight, Holding
    <3> QED
      BY <3>3, OthersEmpty
  <2>7. /\ ~(m \in Range(delivered) /\ m \in Waiting)
        /\ held => m \notin Range(delivered) /\ m \notin Waiting /\ m \notin cleared
    <3>1. m \in Nat /\ ~(m < m)
      BY <1>0, SMTT(30)
    <3>2. \A o \in Ops : /\ Ahead(Range(delivered), Box(op[o])) /\ Ahead(Box(op[o]), Waiting)
                         /\ Box(op[o]) \cap cleared = {}
      BY DEF MessagesInv
    <3>3. Ahead(Range(delivered), Waiting)
      BY DEF MessagesInv
    <3> QED
      BY <3>1, <3>2, <3>3 DEF Ahead
  <2>8. m \in cleared => m \notin Range(delivered) /\ m \notin Waiting
    BY DEF MessagesInv
  <2>9. /\ ~(m \in Range(steerQueue) /\ m \in Range(followUpQueue))
        /\ ~(m \in Range(steerQueue) /\ m \in Range(nextTurnQueue))
        /\ ~(m \in Range(followUpQueue) /\ m \in Range(nextTurnQueue))
    BY QueuesApart
  <2>10. faults = 0 => held \/ m \in Range(delivered) \cup Waiting \cup cleared
    BY DEF MessagesInv
  <2>11. m \in Waiting <=> \/ m \in Range(steerQueue) \/ m \in Range(followUpQueue)
                           \/ m \in Range(nextTurnQueue)
    BY DEF Waiting
  <2>12. \A p : p \in Places(m) <=> \/ p \in steer \/ p \in follow \/ p \in next
                                    \/ p \in session1 \/ p \in given
                                    \/ \E o \in Ops : p \in inbox(o)
    <3>1. \A p : p \in UNION {inbox(o) : o \in Ops} <=> \E o \in Ops : p \in inbox(o)
      <4> HIDE DEF inbox
      <4> QED
        OBVIOUS
    <3>2. Places(m) = steer \cup follow \cup next \cup session1
                      \cup (UNION {inbox(o) : o \in Ops}) \cup given
      BY DEF Places
    <3> HIDE DEF steer, follow, next, session1, given, inbox
    <3> QED
      BY <3>1, <3>2
  <2> HIDE DEF steer, follow, next, session1, given, inbox
  <2>13. faults = 0 => Places(m) # {}
    <3>1. held => \E o \in Ops : \E p : p \in inbox(o)
      BY <2>5
    <3>2. m \in Range(delivered) \cup Waiting \cup cleared =>
            \E p : p \in steer \/ p \in follow \/ p \in next \/ p \in session1 \/ p \in given
      BY <2>1, <2>2, <2>3, <2>11
    <3> QED
      BY <2>10, <2>12, <3>1, <3>2
  <2>14. ASSUME NEW p \in Places(m), NEW q \in Places(m) PROVE p = q
    <3>1. CASE held
      <4>1. steer = {} /\ follow = {} /\ next = {} /\ session1 = {} /\ given = {}
        BY <2>1, <2>2, <2>3, <2>7, <2>11, <3>1
      <4>2. PICK o \in Ops, o2 \in Ops : p \in inbox(o) /\ q \in inbox(o2)
        BY <2>12, <2>14, <4>1
      <4>3. o = o2
        BY <2>5, <2>6, <4>2
      <4> QED
        BY <2>5, <4>2, <4>3
    <3>2. CASE ~held
      <4>1. \A o \in Ops : inbox(o) = {}
        BY <2>5, <3>2
      <4>2. /\ p \in steer \/ p \in follow \/ p \in next \/ p \in session1 \/ p \in given
            /\ q \in steer \/ q \in follow \/ q \in next \/ q \in session1 \/ q \in given
        BY <2>12, <2>14, <4>1
      <4>3. /\ steer # {} => follow = {} /\ next = {} /\ session1 = {} /\ given = {}
            /\ follow # {} => steer = {} /\ next = {} /\ session1 = {} /\ given = {}
            /\ next # {} => steer = {} /\ follow = {} /\ session1 = {} /\ given = {}
            /\ session1 # {} => steer = {} /\ follow = {} /\ next = {} /\ given = {}
            /\ given # {} => steer = {} /\ follow = {} /\ next = {} /\ session1 = {}
        BY <2>1, <2>2, <2>3, <2>7, <2>8, <2>9, <2>11, ZenonT(40)
      <4> QED
        BY <2>1, <2>2, <2>3, <4>2, <4>3
    <3> QED
      BY <3>1, <3>2
  <2> QED
    BY <2>13, <2>14
<1> QED
  BY <1>0, <1>2 DEF QueuedInOnePlace, InOrder

(* A message queued for the agent is never in two places, whatever fails and
   whenever abort() is called: it is delivered at most once, and not after
   abort() gave it back; it is lost only when something fails; and messages of
   one queue are delivered in the order in which they were sent.  For operations
   that follow one another. *)
THEOREM QueuedOnce == ~Overlap => (Spec => []QueuedInOnePlace)
<1> SUFFICES ASSUME ~Overlap PROVE Spec => []QueuedInOnePlace
  OBVIOUS
<1> DEFINE I == TypeInv /\ PhaseInv /\ MessagesInv
<1>1. Init => I
  BY TypeInvInit, PhaseInvInit, MessagesInvInit
<1>2. I /\ [Next]_vars => I'
  BY TypeInvStep, PhaseInvStep, MessagesInvStep DEF TypeInv
<1>3. I => QueuedInOnePlace
  BY QueuedHolds DEF TypeInv
<1> QED
  BY <1>1, <1>2, <1>3, PTL DEF Spec
===============================================================================
