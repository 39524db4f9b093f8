--------------------------- MODULE ToolBatchProofs ---------------------------
(* Proofs about ToolBatch, for any number of calls, results and overrides. *)
EXTENDS ToolBatch, TLAPS

(* A leaf that names no prover is Zenon's. *)
USE Zenon

(* The outcomes the actions build are outcomes. *)
LEMMA FailedIsOutcome == Immediate \in Outcome /\ Errored \in Outcome
BY DEF Immediate, Errored, ErrorResult, Outcome, Result, Progress

(* A tool that resolves gives an outcome. *)
LEMMA SuccessIsOutcome ==
  ASSUME NEW r \in Results
  PROVE  [result |-> r, isError |-> FALSE, executed |-> TRUE] \in Outcome
BY BatchAssumption DEF Outcome

(* What afterToolCall overrides stays an outcome. *)
LEMMA OverriddenIsOutcome ==
  ASSUME NEW o \in Outcome, NEW a \in Overrides
  PROVE  Overridden(o, a) \in Outcome
<1>1. /\ a \in Override
      /\ Default(a.terminate, o.result.terminate) \in BOOLEAN
      /\ Default(a.progress, o.result.progress) \in Progress
      /\ Default(a.completion, o.result.completion) \in BOOLEAN
      /\ Default(a.isError, o.isError) \in BOOLEAN
  BY BatchAssumption DEF Override, Default, Outcome, Result
<1>2. QED
  BY <1>1 DEF Overridden, Outcome, Result

(* There is a first call. *)
LEMMA FirstCall == 1 \in Calls
BY BatchAssumption, SMTT(30) DEF Calls

(* Appending a call keeps a sequence of calls. *)
LEMMA AppendCall ==
  ASSUME NEW s \in Seq(Calls), NEW c \in Calls
  PROVE  Append(s, c) \in Seq(Calls)
BY SMTT(30)

(* Every state of the batch has the type TypeOK gives it. *)
THEOREM TypeCorrect == Spec => []TypeOK
<1>1. Init => TypeOK
  <2>1. Init => DriverTypeOK
    BY FirstCall, SMTT(30) DEF Init, DriverTypeOK
  <2>2. Init => CallTypeOK
    BY FailedIsOutcome, SMTT(30) DEF Init, CallTypeOK, Phases
  <2>3. Init => OutputTypeOK
    BY SMTT(30) DEF Init, OutputTypeOK
  <2>4. QED
    BY <2>1, <2>2, <2>3 DEF TypeOK
<1>2. TypeOK /\ [Next]_vars => TypeOK'
  <2> SUFFICES ASSUME TypeOK, [Next]_vars
               PROVE  TypeOK'
    OBVIOUS
  <2> USE DEF TypeOK
  <2>1. CASE EmitStart
    <3>1. DriverTypeOK'
      BY <2>1, SMTT(30) DEF DriverTypeOK, EmitStart, Emit
    <3>2. CallTypeOK'
      BY <2>1 DEF CallTypeOK, EmitStart, Phases, callVars
    <3>3. OutputTypeOK'
      BY <2>1 DEF OutputTypeOK, EmitStart, DriverTypeOK, outVars
    <3>4. QED
      BY <3>1, <3>2, <3>3
  <2>2. CASE PrepareImmediate
    <3>1. DriverTypeOK'
      BY <2>2 DEF DriverTypeOK, PrepareImmediate
    <3>2. CallTypeOK'
      BY <2>2, FailedIsOutcome DEF CallTypeOK, PrepareImmediate, Phases
    <3>3. OutputTypeOK'
      BY <2>2 DEF OutputTypeOK, PrepareImmediate, outVars
    <3>4. QED
      BY <3>1, <3>2, <3>3
  <2>3. CASE Prepare
    <3>1. DriverTypeOK'
      BY <2>3 DEF DriverTypeOK, Prepare
    <3>2. CallTypeOK'
      BY <2>3 DEF CallTypeOK, Prepare, Phases, callVars
    <3>3. OutputTypeOK'
      BY <2>3, AppendCall DEF OutputTypeOK, Prepare, DriverTypeOK, outVars
    <3>4. QED
      BY <3>1, <3>2, <3>3
  <2>4. CASE EmitEnd
    <3>1. DriverTypeOK'
      BY <2>4, SMTT(30) DEF DriverTypeOK, EmitEnd, Emit
    <3>2. CallTypeOK'
      BY <2>4 DEF CallTypeOK, EmitEnd, Phases, callVars
    <3>3. OutputTypeOK'
      BY <2>4, AppendCall DEF OutputTypeOK, EmitEnd, Pushed, DriverTypeOK, outVars
    <3>4. QED
      BY <3>1, <3>2, <3>3
  <2>5. CASE EmitResult
    <3>1. DriverTypeOK'
      BY <2>5, SMTT(30) DEF DriverTypeOK, EmitResult, EmitResultMessage, Emit
    <3>2. CallTypeOK'
      BY <2>5 DEF CallTypeOK, EmitResult, callVars
    <3>3. OutputTypeOK'
      BY <2>5, AppendCall DEF OutputTypeOK, EmitResult, DriverTypeOK, EmitResultMessage
    <3>4. QED
      BY <3>1, <3>2, <3>3
  <2>6. CASE Check
    <3>1. cur < N => cur + 1 \in Calls
      BY BatchAssumption, SMTT(30) DEF DriverTypeOK, Calls
    <3>2. DriverTypeOK'
      BY <2>6, <3>1 DEF DriverTypeOK, Check, MoreCalls
    <3>3. CallTypeOK'
      BY <2>6 DEF CallTypeOK, Check, Phases, callVars
    <3>4. OutputTypeOK'
      BY <2>6 DEF OutputTypeOK, Check, outVars
    <3>5. QED
      BY <3>2, <3>3, <3>4
  <2>7. CASE Join
    <3>1. DriverTypeOK'
      BY <2>7 DEF DriverTypeOK, Join
    <3>2. CallTypeOK'
      BY <2>7 DEF CallTypeOK, Join, callVars
    <3>3. OutputTypeOK'
      BY <2>7 DEF OutputTypeOK, Join, outVars
    <3>4. QED
      BY <3>1, <3>2, <3>3
  <2>8. CASE EmitResults
    <3>1. finalizedCalls[Len(messages) + 1] \in Calls
      BY <2>8, SMTT(30) DEF EmitResults, OutputTypeOK
    <3>2. DriverTypeOK'
      BY <2>8, SMTT(30) DEF DriverTypeOK, EmitResults, EmitResultMessage, Emit
    <3>3. CallTypeOK'
      BY <2>8 DEF CallTypeOK, EmitResults, callVars
    <3>4. OutputTypeOK'
      BY <2>8, <3>1, AppendCall DEF OutputTypeOK, EmitResults, EmitResultMessage
    <3>5. QED
      BY <3>2, <3>3, <3>4
  <2>9. CASE Return
    <3>1. DriverTypeOK'
      BY <2>9 DEF DriverTypeOK, Return
    <3>2. CallTypeOK'
      BY <2>9 DEF CallTypeOK, Return, callVars
    <3>3. OutputTypeOK'
      BY <2>9 DEF OutputTypeOK, Return, outVars
    <3>4. QED
      BY <3>1, <3>2, <3>3
  <2>10. ASSUME NEW c \in Calls, Update(c) PROVE TypeOK'
    <3>1. DriverTypeOK'
      BY <2>10 DEF DriverTypeOK, Update
    <3>2. CallTypeOK'
      BY <2>10, SMTT(30) DEF CallTypeOK, Update
    <3>3. OutputTypeOK'
      BY <2>10 DEF OutputTypeOK, Update, outVars
    <3>4. QED
      BY <3>1, <3>2, <3>3
  <2>11. ASSUME NEW c \in Calls, UpdateDelivered(c) PROVE TypeOK'
    <3>1. DriverTypeOK'
      BY <2>11, SMTT(30) DEF DriverTypeOK, UpdateDelivered
    <3>2. CallTypeOK'
      BY <2>11, SMTT(30) DEF CallTypeOK, UpdateDelivered
    <3>3. OutputTypeOK'
      BY <2>11 DEF OutputTypeOK, UpdateDelivered, outVars
    <3>4. QED
      BY <3>1, <3>2, <3>3
  <2>12. ASSUME NEW c \in Calls, Settle(c) PROVE TypeOK'
    <3>1. DriverTypeOK'
      BY <2>12 DEF DriverTypeOK, Settle
    <3>2. CallTypeOK'
      BY <2>12, FailedIsOutcome, SuccessIsOutcome DEF CallTypeOK, Settle, Phases
    <3>3. OutputTypeOK'
      BY <2>12 DEF OutputTypeOK, Settle, outVars
    <3>4. QED
      BY <3>1, <3>2, <3>3
  <2>13. ASSUME NEW c \in Calls, Executed(c) PROVE TypeOK'
    <3>1. DriverTypeOK'
      BY <2>13 DEF DriverTypeOK, Executed
    <3>2. CallTypeOK'
      BY <2>13, FailedIsOutcome DEF CallTypeOK, Executed, Phases
    <3>3. OutputTypeOK'
      BY <2>13 DEF OutputTypeOK, Executed, outVars
    <3>4. QED
      BY <3>1, <3>2, <3>3
  <2>14. ASSUME NEW c \in Calls, Finalize(c) PROVE TypeOK'
    <3>1. DriverTypeOK'
      BY <2>14 DEF DriverTypeOK, Finalize
    <3>2. CallTypeOK'
      BY <2>14, FailedIsOutcome, OverriddenIsOutcome, SMTT(30) DEF CallTypeOK, Finalize, Phases
    <3>3. OutputTypeOK'
      BY <2>14 DEF OutputTypeOK, Finalize, outVars
    <3>4. QED
      BY <3>1, <3>2, <3>3
  <2>15. ASSUME NEW c \in Calls, EmitEndConcurrent(c) PROVE TypeOK'
    <3>1. DriverTypeOK'
      BY <2>15, SMTT(30) DEF DriverTypeOK, EmitEndConcurrent, Emit
    <3>2. CallTypeOK'
      BY <2>15 DEF CallTypeOK, EmitEndConcurrent, Phases, callVars
    <3>3. OutputTypeOK'
      BY <2>15 DEF OutputTypeOK, EmitEndConcurrent, outVars
    <3>4. QED
      BY <3>1, <3>2, <3>3
  <2>16. CASE Abort
    <3>1. DriverTypeOK'
      BY <2>16 DEF DriverTypeOK, Abort
    <3>2. CallTypeOK'
      BY <2>16 DEF CallTypeOK, Abort, callVars
    <3>3. OutputTypeOK'
      BY <2>16 DEF OutputTypeOK, Abort, outVars
    <3>4. QED
      BY <3>1, <3>2, <3>3
  <2>17. CASE UNCHANGED vars
    BY <2>17 DEF vars, callVars, outVars, DriverTypeOK, CallTypeOK, OutputTypeOK
  <2>18. QED
    BY <2>1, <2>2, <2>3, <2>4, <2>5, <2>6, <2>7, <2>8, <2>9, <2>10, <2>11,
       <2>12, <2>13, <2>14, <2>15, <2>16, <2>17 DEF Next, Driver, CallStep, Done
<1>3. QED
  BY <1>1, <1>2, PTL DEF Spec

-----------------------------------------------------------------------------
(* The inductive invariant. *)

(* The calls are the numbers up to N. *)
LEMMA CallsAreNumbers == /\ N \in Nat
                         /\ \A c \in Calls : c \in Nat /\ 1 <= c /\ c <= N
BY BatchAssumption, SMTT(30) DEF Calls

(* The driver and the call it is at stay in step. *)
LEMMA CursorInvStep ==
  ASSUME TypeOK, CursorInv, [Next]_vars
  PROVE  CursorInv'
<1>1. CASE EmitStart
  BY <1>1, CallsAreNumbers, SMTT(30)
  DEF EmitStart, Emit, CursorInv, Running, callVars, TypeOK, DriverTypeOK,
      CallTypeOK
<1>2. CASE PrepareImmediate
  BY <1>2, CallsAreNumbers
  DEF PrepareImmediate, CursorInv, Running, callVars, TypeOK, DriverTypeOK,
      CallTypeOK
<1>3. CASE Prepare
  BY <1>3, CallsAreNumbers DEF Prepare, CursorInv, Running, callVars, TypeOK, DriverTypeOK,
      CallTypeOK
<1>4. CASE EmitEnd
  BY <1>4, CallsAreNumbers DEF EmitEnd, Emit, Pushed, CursorInv, Running, callVars, TypeOK,
      DriverTypeOK, CallTypeOK
<1>5. CASE EmitResult
  BY <1>5, CallsAreNumbers
  DEF EmitResult, EmitResultMessage, Emit, CursorInv, Running, callVars,
      TypeOK, DriverTypeOK, CallTypeOK
<1>6. CASE Check
  <2>1. CASE MoreCalls
    <3>1. cur' = cur + 1 /\ pc' = "start" /\ phase' = phase /\ cur < N
      BY <1>6, <2>1 DEF Check, MoreCalls
    <3>2. cur + 1 \in Calls
      BY <3>1, BatchAssumption, SMTT(30) DEF Calls, TypeOK, DriverTypeOK
    <3>3. phase[cur + 1] = "idle"
      BY <3>2, CallsAreNumbers, SMTT(30) DEF CursorInv, TypeOK, DriverTypeOK
    <3>4. \A c \in Calls : c > cur + 1 => phase[c] = "idle"
      BY CallsAreNumbers, SMTT(30) DEF CursorInv, TypeOK, DriverTypeOK
    <3>5. QED
      BY <3>1, <3>3, <3>4 DEF CursorInv
  <2>2. CASE ~MoreCalls
    BY <1>6, <2>2 DEF Check, CursorInv, TypeOK, DriverTypeOK, CallTypeOK
  <2>3. QED
    BY <2>1, <2>2
<1>7. CASE Join
  BY <1>7, CallsAreNumbers
  DEF Join, AllEnded, CursorInv, Running, callVars, TypeOK, DriverTypeOK,
      CallTypeOK
<1>8. CASE EmitResults
  BY <1>8, CallsAreNumbers
  DEF EmitResults, EmitResultMessage, Emit, CursorInv, Running, callVars,
      TypeOK, DriverTypeOK, CallTypeOK
<1>9. CASE Return
  BY <1>9, CallsAreNumbers
  DEF Return, CursorInv, Running, callVars, TypeOK, DriverTypeOK, CallTypeOK
<1>10. CASE Abort
  BY <1>10, CallsAreNumbers
  DEF Abort, CursorInv, Running, callVars, TypeOK, DriverTypeOK, CallTypeOK
<1>11. ASSUME NEW c \in Calls, Update(c) PROVE CursorInv'
  BY <1>11, CallsAreNumbers
  DEF Update, CursorInv, Running, callVars, TypeOK, DriverTypeOK, CallTypeOK
<1>12. ASSUME NEW c \in Calls, UpdateDelivered(c) PROVE CursorInv'
  BY <1>12, CallsAreNumbers
  DEF UpdateDelivered, CursorInv, Running, callVars, TypeOK, DriverTypeOK,
      CallTypeOK
<1>13. ASSUME NEW c \in Calls, Settle(c) PROVE CursorInv'
  BY <1>13, CallsAreNumbers
  DEF Settle, CursorInv, Running, callVars, TypeOK, DriverTypeOK, CallTypeOK
<1>14. ASSUME NEW c \in Calls, Executed(c) PROVE CursorInv'
  BY <1>14, CallsAreNumbers
  DEF Executed, CursorInv, Running, callVars, TypeOK, DriverTypeOK,
      CallTypeOK
<1>15. ASSUME NEW c \in Calls, Finalize(c) PROVE CursorInv'
  BY <1>15, CallsAreNumbers
  DEF Finalize, CursorInv, Running, callVars, TypeOK, DriverTypeOK,
      CallTypeOK
<1>16. ASSUME NEW c \in Calls, EmitEndConcurrent(c) PROVE CursorInv'
  BY <1>16, CallsAreNumbers
  DEF EmitEndConcurrent, Emit, ThunksRun, CursorInv, Running, callVars,
      TypeOK, DriverTypeOK, CallTypeOK
<1>17. CASE UNCHANGED vars
  BY <1>17
  DEF vars, callVars, outVars, CursorInv, Running, TypeOK, DriverTypeOK, CallTypeOK
<1>18. QED
  BY <1>1, <1>2, <1>3, <1>4, <1>5, <1>6, <1>7, <1>8, <1>9, <1>10, <1>11,
     <1>12, <1>13, <1>14, <1>15, <1>16, <1>17 DEF Next, Driver, CallStep,
     Done

(* So do the driver and the calls before that one. *)
LEMMA EarlierInvStep ==
  ASSUME TypeOK, CursorInv, EarlierInv, FinalizedInv, ModeInv, [Next]_vars
  PROVE  EarlierInv'
<1>1. CASE EmitStart
  BY <1>1, CallsAreNumbers
  DEF EmitStart, Emit, CursorInv, EarlierInv, Preparing, Running, callVars,
      ModeInv, TypeOK, DriverTypeOK, CallTypeOK
<1>2. CASE PrepareImmediate
  BY <1>2, CallsAreNumbers
  DEF PrepareImmediate, CursorInv, EarlierInv, Preparing, Running, callVars,
      ModeInv, TypeOK, DriverTypeOK, CallTypeOK
<1>3. CASE Prepare
  BY <1>3, CallsAreNumbers
  DEF Prepare, CursorInv, EarlierInv, Preparing, Running, callVars, ModeInv,
      TypeOK, DriverTypeOK, CallTypeOK
<1>4. CASE EmitEnd
  BY <1>4, CallsAreNumbers
  DEF EmitEnd, Emit, Pushed, CursorInv, EarlierInv, Preparing, Running,
      callVars, ModeInv, TypeOK, DriverTypeOK, CallTypeOK
<1>5. CASE EmitResult
  BY <1>5, CallsAreNumbers
  DEF EmitResult, EmitResultMessage, Emit, CursorInv, EarlierInv, Preparing,
      Running, callVars, ModeInv, TypeOK, DriverTypeOK, CallTypeOK
<1>6. CASE Check
  BY <1>6, CallsAreNumbers, SMTT(30)
  DEF Check, MoreCalls, CursorInv, EarlierInv, Preparing, Running, callVars,
      ModeInv, TypeOK, DriverTypeOK, CallTypeOK
<1>7. CASE Join
  <2>1. finalizedCalls = Upto(cur)
    BY <1>7 DEF Join, FinalizedInv, Preparing
  <2>2. \A c \in Calls : c <= cur => c \in DOMAIN finalizedCalls /\ finalizedCalls[c] = c
    BY <2>1, CallsAreNumbers, SMTT(30) DEF Upto, TypeOK, DriverTypeOK
  <2>3. \A c \in Calls : c <= cur => phase[c] = "ended"
    BY <1>7, <2>2 DEF Join, AllEnded
  <2>4. QED
    BY <1>7, <2>3 DEF Join, EarlierInv, Preparing
<1>8. CASE EmitResults
  BY <1>8, CallsAreNumbers DEF EmitResults, EmitResultMessage, Emit, CursorInv, EarlierInv,
      Preparing, Running, callVars, ModeInv, TypeOK, DriverTypeOK,
      CallTypeOK
<1>9. CASE Return
  BY <1>9, CallsAreNumbers
  DEF Return, CursorInv, EarlierInv, Preparing, Running, callVars, ModeInv,
      TypeOK, DriverTypeOK, CallTypeOK
<1>10. CASE Abort
  BY <1>10, CallsAreNumbers
  DEF Abort, CursorInv, EarlierInv, Preparing, Running, callVars, ModeInv,
      TypeOK, DriverTypeOK, CallTypeOK
<1>11. ASSUME NEW c \in Calls, Update(c) PROVE EarlierInv'
  BY <1>11, CallsAreNumbers
  DEF Update, CursorInv, EarlierInv, Preparing, Running, callVars, ModeInv,
      TypeOK, DriverTypeOK, CallTypeOK
<1>12. ASSUME NEW c \in Calls, UpdateDelivered(c) PROVE EarlierInv'
  BY <1>12, CallsAreNumbers
  DEF UpdateDelivered, CursorInv, EarlierInv, Preparing, Running, callVars,
      ModeInv, TypeOK, DriverTypeOK, CallTypeOK
<1>13. ASSUME NEW c \in Calls, Settle(c) PROVE EarlierInv'
  BY <1>13, CallsAreNumbers
  DEF Settle, CursorInv, EarlierInv, Preparing, Running, callVars, ModeInv,
      TypeOK, DriverTypeOK, CallTypeOK
<1>14. ASSUME NEW c \in Calls, Executed(c) PROVE EarlierInv'
  BY <1>14, CallsAreNumbers
  DEF Executed, CursorInv, EarlierInv, Preparing, Running, callVars,
      ModeInv, TypeOK, DriverTypeOK, CallTypeOK
<1>15. ASSUME NEW c \in Calls, Finalize(c) PROVE EarlierInv'
  BY <1>15, CallsAreNumbers
  DEF Finalize, CursorInv, EarlierInv, Preparing, Running, callVars,
      ModeInv, TypeOK, DriverTypeOK, CallTypeOK
<1>16. ASSUME NEW c \in Calls, EmitEndConcurrent(c) PROVE EarlierInv'
  BY <1>16, CallsAreNumbers
  DEF EmitEndConcurrent, Emit, ThunksRun, CursorInv, EarlierInv, Preparing,
      Running, callVars, ModeInv, TypeOK, DriverTypeOK, CallTypeOK
<1>17. CASE UNCHANGED vars
  BY <1>17
  DEF vars, callVars, outVars, CursorInv, EarlierInv, Preparing, Running, ModeInv,
      TypeOK, DriverTypeOK, CallTypeOK
<1>18. QED
  BY <1>1, <1>2, <1>3, <1>4, <1>5, <1>6, <1>7, <1>8, <1>9, <1>10, <1>11,
     <1>12, <1>13, <1>14, <1>15, <1>16, <1>17 DEF Next, Driver, CallStep,
     Done

(* The agent shows exactly the calls started and not ended as pending. *)
LEMMA PendingInvStep ==
  ASSUME TypeOK, CursorInv, EarlierInv, PendingInv, [Next]_vars
  PROVE  PendingInv'
<1>1. CASE EmitStart
  BY <1>1 DEF EmitStart, Emit, CursorInv, PendingInv, callVars, TypeOK,
      DriverTypeOK, CallTypeOK
<1>2. CASE PrepareImmediate
  BY <1>2 DEF PrepareImmediate, CursorInv, PendingInv, callVars, TypeOK,
      DriverTypeOK, CallTypeOK
<1>3. CASE Prepare
  BY <1>3 DEF Prepare, CursorInv, PendingInv, callVars, TypeOK, DriverTypeOK,
      CallTypeOK
<1>4. CASE EmitEnd
  BY <1>4 DEF EmitEnd, Emit, Pushed, CursorInv, PendingInv, callVars, TypeOK,
      DriverTypeOK, CallTypeOK
<1>5. CASE EmitResult
  BY <1>5 DEF EmitResult, EmitResultMessage, Emit, CursorInv, PendingInv, callVars,
      TypeOK, DriverTypeOK, CallTypeOK
<1>6. CASE Check
  BY <1>6 DEF Check, MoreCalls, CursorInv, PendingInv, callVars, TypeOK,
      DriverTypeOK, CallTypeOK
<1>7. CASE Join
  BY <1>7 DEF Join, AllEnded, CursorInv, PendingInv, callVars, TypeOK, DriverTypeOK,
      CallTypeOK
<1>8. CASE EmitResults
  BY <1>8 DEF EmitResults, EmitResultMessage, Emit, CursorInv, PendingInv, callVars,
      TypeOK, DriverTypeOK, CallTypeOK
<1>9. CASE Return
  BY <1>9 DEF Return, CursorInv, PendingInv, callVars, TypeOK, DriverTypeOK,
      CallTypeOK
<1>10. CASE Abort
  BY <1>10 DEF Abort, CursorInv, PendingInv, callVars, TypeOK, DriverTypeOK,
      CallTypeOK
<1>11. ASSUME NEW c \in Calls, Update(c) PROVE PendingInv'
  BY <1>11 DEF Update, CursorInv, PendingInv, callVars, TypeOK, DriverTypeOK,
      CallTypeOK
<1>12. ASSUME NEW c \in Calls, UpdateDelivered(c) PROVE PendingInv'
  BY <1>12 DEF UpdateDelivered, CursorInv, PendingInv, callVars, TypeOK,
      DriverTypeOK, CallTypeOK
<1>13. ASSUME NEW c \in Calls, Settle(c) PROVE PendingInv'
  BY <1>13 DEF Settle, CursorInv, PendingInv, callVars, TypeOK, DriverTypeOK,
      CallTypeOK
<1>14. ASSUME NEW c \in Calls, Executed(c) PROVE PendingInv'
  BY <1>14 DEF Executed, CursorInv, PendingInv, callVars, TypeOK, DriverTypeOK,
      CallTypeOK
<1>15. ASSUME NEW c \in Calls, Finalize(c) PROVE PendingInv'
  BY <1>15 DEF Finalize, CursorInv, PendingInv, callVars, TypeOK, DriverTypeOK,
      CallTypeOK
<1>16. ASSUME NEW c \in Calls, EmitEndConcurrent(c) PROVE PendingInv'
  BY <1>16 DEF EmitEndConcurrent, Emit, ThunksRun, CursorInv, PendingInv, callVars,
      TypeOK, DriverTypeOK, CallTypeOK
<1>17. CASE UNCHANGED vars
  BY <1>17
  DEF vars, callVars, outVars, CursorInv, PendingInv, TypeOK, DriverTypeOK, CallTypeOK
<1>18. QED
  BY <1>1, <1>2, <1>3, <1>4, <1>5, <1>6, <1>7, <1>8, <1>9, <1>10, <1>11,
     <1>12, <1>13, <1>14, <1>15, <1>16, <1>17 DEF Next, Driver, CallStep,
     Done

(* Only a call that runs or has just settled has updates under way. *)
LEMMA UpdatesInvStep ==
  ASSUME TypeOK, CursorInv, UpdatesInv, [Next]_vars
  PROVE  UpdatesInv'
<1>1. CASE EmitStart
  BY <1>1 DEF EmitStart, Emit, CursorInv, UpdatesInv, callVars, UpdatesDelivered,
      TypeOK, DriverTypeOK, CallTypeOK
<1>2. CASE PrepareImmediate
  BY <1>2 DEF PrepareImmediate, CursorInv, UpdatesInv, callVars, UpdatesDelivered,
      TypeOK, DriverTypeOK, CallTypeOK
<1>3. CASE Prepare
  BY <1>3 DEF Prepare, CursorInv, UpdatesInv, callVars, UpdatesDelivered, TypeOK,
      DriverTypeOK, CallTypeOK
<1>4. CASE EmitEnd
  BY <1>4 DEF EmitEnd, Emit, Pushed, CursorInv, UpdatesInv, callVars,
      UpdatesDelivered, TypeOK, DriverTypeOK, CallTypeOK
<1>5. CASE EmitResult
  BY <1>5 DEF EmitResult, EmitResultMessage, Emit, CursorInv, UpdatesInv, callVars,
      UpdatesDelivered, TypeOK, DriverTypeOK, CallTypeOK
<1>6. CASE Check
  BY <1>6 DEF Check, MoreCalls, CursorInv, UpdatesInv, callVars, UpdatesDelivered,
      TypeOK, DriverTypeOK, CallTypeOK
<1>7. CASE Join
  BY <1>7 DEF Join, AllEnded, CursorInv, UpdatesInv, callVars, UpdatesDelivered,
      TypeOK, DriverTypeOK, CallTypeOK
<1>8. CASE EmitResults
  BY <1>8 DEF EmitResults, EmitResultMessage, Emit, CursorInv, UpdatesInv, callVars,
      UpdatesDelivered, TypeOK, DriverTypeOK, CallTypeOK
<1>9. CASE Return
  BY <1>9 DEF Return, CursorInv, UpdatesInv, callVars, UpdatesDelivered, TypeOK,
      DriverTypeOK, CallTypeOK
<1>10. CASE Abort
  BY <1>10 DEF Abort, CursorInv, UpdatesInv, callVars, UpdatesDelivered, TypeOK,
      DriverTypeOK, CallTypeOK
<1>11. ASSUME NEW c \in Calls, Update(c) PROVE UpdatesInv'
  BY <1>11 DEF Update, CursorInv, UpdatesInv, callVars, UpdatesDelivered, TypeOK,
      DriverTypeOK, CallTypeOK
<1>12. ASSUME NEW c \in Calls, UpdateDelivered(c) PROVE UpdatesInv'
  BY <1>12, SMTT(30) DEF UpdateDelivered, CursorInv, UpdatesInv, callVars, UpdatesDelivered,
      TypeOK, DriverTypeOK, CallTypeOK
<1>13. ASSUME NEW c \in Calls, Settle(c) PROVE UpdatesInv'
  BY <1>13 DEF Settle, CursorInv, UpdatesInv, callVars, UpdatesDelivered, TypeOK,
      DriverTypeOK, CallTypeOK
<1>14. ASSUME NEW c \in Calls, Executed(c) PROVE UpdatesInv'
  BY <1>14 DEF Executed, CursorInv, UpdatesInv, callVars, UpdatesDelivered, TypeOK,
      DriverTypeOK, CallTypeOK
<1>15. ASSUME NEW c \in Calls, Finalize(c) PROVE UpdatesInv'
  BY <1>15 DEF Finalize, CursorInv, UpdatesInv, callVars, UpdatesDelivered, TypeOK,
      DriverTypeOK, CallTypeOK
<1>16. ASSUME NEW c \in Calls, EmitEndConcurrent(c) PROVE UpdatesInv'
  BY <1>16 DEF EmitEndConcurrent, Emit, ThunksRun, CursorInv, UpdatesInv, callVars,
      UpdatesDelivered, TypeOK, DriverTypeOK, CallTypeOK
<1>17. CASE UNCHANGED vars
  BY <1>17
  DEF vars, callVars, outVars, CursorInv, UpdatesInv, UpdatesDelivered, TypeOK,
      DriverTypeOK, CallTypeOK
<1>18. QED
  BY <1>1, <1>2, <1>3, <1>4, <1>5, <1>6, <1>7, <1>8, <1>9, <1>10, <1>11,
     <1>12, <1>13, <1>14, <1>15, <1>16, <1>17 DEF Next, Driver, CallStep,
     Done

(* Each driver stays on its own path. *)
LEMMA ModeInvStep ==
  ASSUME TypeOK, ModeInv, [Next]_vars
  PROVE  ModeInv'
<1>1. CASE EmitStart
  BY <1>1 DEF EmitStart, Emit, ModeInv, TypeOK, DriverTypeOK, CallTypeOK
<1>2. CASE PrepareImmediate
  BY <1>2 DEF PrepareImmediate, ModeInv, TypeOK, DriverTypeOK, CallTypeOK
<1>3. CASE Prepare
  BY <1>3 DEF Prepare, ModeInv, TypeOK, DriverTypeOK, CallTypeOK
<1>4. CASE EmitEnd
  BY <1>4 DEF EmitEnd, Emit, Pushed, ModeInv, TypeOK, DriverTypeOK, CallTypeOK
<1>5. CASE EmitResult
  BY <1>5 DEF EmitResult, EmitResultMessage, Emit, ModeInv, TypeOK, DriverTypeOK,
      CallTypeOK
<1>6. CASE Check
  BY <1>6 DEF Check, MoreCalls, ModeInv, TypeOK, DriverTypeOK, CallTypeOK
<1>7. CASE Join
  BY <1>7 DEF Join, AllEnded, ModeInv, TypeOK, DriverTypeOK, CallTypeOK
<1>8. CASE EmitResults
  BY <1>8 DEF EmitResults, EmitResultMessage, Emit, ModeInv, TypeOK, DriverTypeOK,
      CallTypeOK
<1>9. CASE Return
  BY <1>9 DEF Return, ModeInv, TypeOK, DriverTypeOK, CallTypeOK
<1>10. CASE Abort
  BY <1>10 DEF Abort, ModeInv, TypeOK, DriverTypeOK, CallTypeOK
<1>11. ASSUME NEW c \in Calls, Update(c) PROVE ModeInv'
  BY <1>11 DEF Update, ModeInv, TypeOK, DriverTypeOK, CallTypeOK
<1>12. ASSUME NEW c \in Calls, UpdateDelivered(c) PROVE ModeInv'
  BY <1>12 DEF UpdateDelivered, ModeInv, TypeOK, DriverTypeOK, CallTypeOK
<1>13. ASSUME NEW c \in Calls, Settle(c) PROVE ModeInv'
  BY <1>13 DEF Settle, ModeInv, TypeOK, DriverTypeOK, CallTypeOK
<1>14. ASSUME NEW c \in Calls, Executed(c) PROVE ModeInv'
  BY <1>14 DEF Executed, ModeInv, TypeOK, DriverTypeOK, CallTypeOK
<1>15. ASSUME NEW c \in Calls, Finalize(c) PROVE ModeInv'
  BY <1>15 DEF Finalize, ModeInv, TypeOK, DriverTypeOK, CallTypeOK
<1>16. ASSUME NEW c \in Calls, EmitEndConcurrent(c) PROVE ModeInv'
  BY <1>16 DEF EmitEndConcurrent, Emit, ThunksRun, ModeInv, TypeOK, DriverTypeOK,
      CallTypeOK
<1>17. CASE UNCHANGED vars
  BY <1>17 DEF vars, callVars, outVars, ModeInv, TypeOK, DriverTypeOK, CallTypeOK
<1>18. QED
  BY <1>1, <1>2, <1>3, <1>4, <1>5, <1>6, <1>7, <1>8, <1>9, <1>10, <1>11,
     <1>12, <1>13, <1>14, <1>15, <1>16, <1>17 DEF Next, Driver, CallStep,
     Done

(* The loop stops early only when aborted. *)
LEMMA ShortInvStep ==
  ASSUME TypeOK, ShortInv, ModeInv, [Next]_vars
  PROVE  ShortInv'
<1>1. CASE EmitStart
  BY <1>1, CallsAreNumbers
  DEF EmitStart, Emit, ShortInv, ModeInv, callVars, TypeOK, DriverTypeOK,
      CallTypeOK
<1>2. CASE PrepareImmediate
  BY <1>2, CallsAreNumbers
  DEF PrepareImmediate, ShortInv, ModeInv, callVars, TypeOK, DriverTypeOK,
      CallTypeOK
<1>3. CASE Prepare
  BY <1>3, CallsAreNumbers
  DEF Prepare, ShortInv, ModeInv, callVars, TypeOK, DriverTypeOK, CallTypeOK
<1>4. CASE EmitEnd
  BY <1>4, CallsAreNumbers DEF EmitEnd, Emit, Pushed, ShortInv, ModeInv, callVars, TypeOK,
      DriverTypeOK, CallTypeOK
<1>5. CASE EmitResult
  BY <1>5, CallsAreNumbers
  DEF EmitResult, EmitResultMessage, Emit, ShortInv, ModeInv, callVars,
      TypeOK, DriverTypeOK, CallTypeOK
<1>6. CASE Check
  BY <1>6, CallsAreNumbers
  DEF Check, MoreCalls, ShortInv, ModeInv, callVars, TypeOK, DriverTypeOK,
      CallTypeOK
<1>7. CASE Join
  BY <1>7, CallsAreNumbers
  DEF Join, AllEnded, ShortInv, ModeInv, callVars, TypeOK, DriverTypeOK,
      CallTypeOK
<1>8. CASE EmitResults
  BY <1>8, CallsAreNumbers
  DEF EmitResults, EmitResultMessage, Emit, ShortInv, ModeInv, callVars,
      TypeOK, DriverTypeOK, CallTypeOK
<1>9. CASE Return
  BY <1>9, CallsAreNumbers
  DEF Return, ShortInv, ModeInv, callVars, TypeOK, DriverTypeOK, CallTypeOK
<1>10. CASE Abort
  BY <1>10, CallsAreNumbers
  DEF Abort, ShortInv, ModeInv, callVars, TypeOK, DriverTypeOK, CallTypeOK
<1>11. ASSUME NEW c \in Calls, Update(c) PROVE ShortInv'
  BY <1>11, CallsAreNumbers
  DEF Update, ShortInv, ModeInv, callVars, TypeOK, DriverTypeOK, CallTypeOK
<1>12. ASSUME NEW c \in Calls, UpdateDelivered(c) PROVE ShortInv'
  BY <1>12, CallsAreNumbers
  DEF UpdateDelivered, ShortInv, ModeInv, callVars, TypeOK, DriverTypeOK,
      CallTypeOK
<1>13. ASSUME NEW c \in Calls, Settle(c) PROVE ShortInv'
  BY <1>13, CallsAreNumbers
  DEF Settle, ShortInv, ModeInv, callVars, TypeOK, DriverTypeOK, CallTypeOK
<1>14. ASSUME NEW c \in Calls, Executed(c) PROVE ShortInv'
  BY <1>14, CallsAreNumbers DEF Executed, ShortInv, ModeInv, callVars, TypeOK, DriverTypeOK,
      CallTypeOK
<1>15. ASSUME NEW c \in Calls, Finalize(c) PROVE ShortInv'
  BY <1>15, CallsAreNumbers DEF Finalize, ShortInv, ModeInv, callVars, TypeOK, DriverTypeOK,
      CallTypeOK
<1>16. ASSUME NEW c \in Calls, EmitEndConcurrent(c) PROVE ShortInv'
  BY <1>16, CallsAreNumbers
  DEF EmitEndConcurrent, Emit, ThunksRun, ShortInv, ModeInv, callVars,
      TypeOK, DriverTypeOK, CallTypeOK
<1>17. CASE UNCHANGED vars
  BY <1>17
  DEF vars, callVars, outVars, ShortInv, ModeInv, TypeOK, DriverTypeOK, CallTypeOK
<1>18. QED
  BY <1>1, <1>2, <1>3, <1>4, <1>5, <1>6, <1>7, <1>8, <1>9, <1>10, <1>11,
     <1>12, <1>13, <1>14, <1>15, <1>16, <1>17 DEF Next, Driver, CallStep,
     Done

(* Facts about the sequence 1, ..., k. *)
LEMMA UptoZero == Upto(0) = <<>>
BY SMTT(30) DEF Upto

(* Its length. *)
LEMMA UptoLen == \A k \in Nat : Len(Upto(k)) = k
BY SMTT(30) DEF Upto

(* Its elements. *)
LEMMA UptoElement == \A k \in Nat : \A i \in 1..k : Upto(k)[i] = i
BY DEF Upto

(* Appending the next number. *)
LEMMA UptoNext == \A k \in Nat : Append(Upto(k), k + 1) = Upto(k + 1)
BY SMTT(30) DEF Upto

(* The same for calls. *)
LEMMA UptoCall == \A c \in Calls : Append(Upto(c - 1), c) = Upto(c)
<1> SUFFICES ASSUME NEW c \in Calls
             PROVE  Append(Upto(c - 1), c) = Upto(c)
  OBVIOUS
<1>1. c - 1 \in Nat /\ (c - 1) + 1 = c
  BY CallsAreNumbers, SMTT(30)
<1>2. QED
  BY <1>1, UptoNext

(* The driver pushes the calls in source order. *)
LEMMA FinalizedInvStep ==
  ASSUME TypeOK, ModeInv, FinalizedInv, [Next]_vars
  PROVE  FinalizedInv'
<1>1. CASE EmitStart
  BY <1>1, UptoCall DEF EmitStart, Emit, FinalizedInv, Preparing, TypeOK, DriverTypeOK,
      ModeInv
<1>2. CASE PrepareImmediate
  BY <1>2, UptoCall DEF PrepareImmediate, FinalizedInv, Preparing, TypeOK, DriverTypeOK,
      ModeInv
<1>3. CASE Prepare
  BY <1>3, UptoCall DEF Prepare, FinalizedInv, Preparing, TypeOK, DriverTypeOK, ModeInv
<1>4. CASE EmitEnd
  BY <1>4, UptoCall
  DEF EmitEnd, Emit, Pushed, FinalizedInv, Preparing, TypeOK, DriverTypeOK,
      ModeInv
<1>5. CASE EmitResult
  BY <1>5, UptoCall
  DEF EmitResult, EmitResultMessage, Emit, FinalizedInv, Preparing, TypeOK,
      DriverTypeOK, ModeInv
<1>6. CASE Check
  BY <1>6, UptoCall, CallsAreNumbers, SMTT(30)
  DEF Check, MoreCalls, FinalizedInv, Preparing, TypeOK, DriverTypeOK,
      ModeInv
<1>7. CASE Join
  BY <1>7, UptoCall
  DEF Join, AllEnded, FinalizedInv, Preparing, TypeOK, DriverTypeOK, ModeInv
<1>8. CASE EmitResults
  BY <1>8, UptoCall
  DEF EmitResults, EmitResultMessage, Emit, FinalizedInv, Preparing, TypeOK,
      DriverTypeOK, ModeInv
<1>9. CASE Return
  BY <1>9, UptoCall DEF Return, FinalizedInv, Preparing, TypeOK, DriverTypeOK, ModeInv
<1>10. CASE Abort
  BY <1>10, UptoCall DEF Abort, FinalizedInv, Preparing, TypeOK, DriverTypeOK, ModeInv
<1>11. ASSUME NEW c \in Calls, Update(c) PROVE FinalizedInv'
  BY <1>11, UptoCall DEF Update, FinalizedInv, Preparing, TypeOK, DriverTypeOK, ModeInv
<1>12. ASSUME NEW c \in Calls, UpdateDelivered(c) PROVE FinalizedInv'
  BY <1>12, UptoCall DEF UpdateDelivered, FinalizedInv, Preparing, TypeOK, DriverTypeOK,
      ModeInv
<1>13. ASSUME NEW c \in Calls, Settle(c) PROVE FinalizedInv'
  BY <1>13, UptoCall DEF Settle, FinalizedInv, Preparing, TypeOK, DriverTypeOK, ModeInv
<1>14. ASSUME NEW c \in Calls, Executed(c) PROVE FinalizedInv'
  BY <1>14, UptoCall DEF Executed, FinalizedInv, Preparing, TypeOK, DriverTypeOK, ModeInv
<1>15. ASSUME NEW c \in Calls, Finalize(c) PROVE FinalizedInv'
  BY <1>15, UptoCall DEF Finalize, FinalizedInv, Preparing, TypeOK, DriverTypeOK, ModeInv
<1>16. ASSUME NEW c \in Calls, EmitEndConcurrent(c) PROVE FinalizedInv'
  BY <1>16, UptoCall
  DEF EmitEndConcurrent, Emit, ThunksRun, FinalizedInv, Preparing, TypeOK,
      DriverTypeOK, ModeInv
<1>17. CASE UNCHANGED vars
  BY <1>17 DEF vars, callVars, outVars, FinalizedInv, Preparing, TypeOK, DriverTypeOK, ModeInv
<1>18. QED
  BY <1>1, <1>2, <1>3, <1>4, <1>5, <1>6, <1>7, <1>8, <1>9, <1>10, <1>11,
     <1>12, <1>13, <1>14, <1>15, <1>16, <1>17 DEF Next, Driver, CallStep,
     Done

(* Result messages follow that order, and the agent state follows them. *)
LEMMA MessagesInvStep ==
  ASSUME TypeOK, ModeInv, FinalizedInv, MessagesInv, [Next]_vars
  PROVE  MessagesInv'
<1>1. CASE EmitStart
  BY <1>1 DEF EmitStart, Emit, MessagesInv, FinalizedInv, Preparing, TypeOK,
      DriverTypeOK, ModeInv, outVars
<1>2. CASE PrepareImmediate
  BY <1>2 DEF PrepareImmediate, MessagesInv, FinalizedInv, Preparing, TypeOK,
      DriverTypeOK, ModeInv, outVars
<1>3. CASE Prepare
  BY <1>3 DEF Prepare, MessagesInv, FinalizedInv, Preparing, TypeOK, DriverTypeOK,
      ModeInv, outVars
<1>4. CASE EmitEnd
  BY <1>4 DEF EmitEnd, Emit, Pushed, MessagesInv, FinalizedInv, Preparing, TypeOK,
      DriverTypeOK, ModeInv, outVars
<1>5. CASE EmitResult
  BY <1>5 DEF EmitResult, EmitResultMessage, Emit, MessagesInv, FinalizedInv,
      Preparing, TypeOK, DriverTypeOK, ModeInv, outVars
<1>6. CASE Check
  BY <1>6 DEF Check, MoreCalls, MessagesInv, FinalizedInv, Preparing, TypeOK,
      DriverTypeOK, ModeInv, outVars
<1>7. CASE Join
  <2>1. 0 \in 0..cur /\ messages = Upto(0)
    BY <1>7, UptoZero, CallsAreNumbers, SMTT(30)
    DEF Join, MessagesInv, ModeInv, TypeOK, DriverTypeOK
  <2>2. QED
    BY <1>7, <2>1 DEF Join, MessagesInv, ModeInv, outVars, Preparing
<1>8. CASE EmitResults
  <2>1. ~sequential /\ finalizedCalls = Upto(cur) /\ transcript = messages
    BY <1>8 DEF EmitResults, ModeInv, FinalizedInv, MessagesInv, Preparing
  <2>2. PICK k \in 0..cur : messages = Upto(k)
    BY <1>8, <2>1 DEF EmitResults, MessagesInv
  <2>3. cur \in Nat /\ k \in Nat /\ k < cur
    BY <1>8, <2>1, <2>2, UptoLen, CallsAreNumbers, SMTT(30) DEF EmitResults, TypeOK, DriverTypeOK
  <2>4. finalizedCalls[Len(messages) + 1] = k + 1 /\ k + 1 \in 0..cur
    BY <2>1, <2>2, <2>3, UptoLen, UptoElement, SMTT(30)
  <2>5. CASE pc' = "failed"
    BY <2>5 DEF MessagesInv
  <2>6. CASE pc' # "failed"
    <3>1. pc' = "results" /\ messages' = Upto(k + 1) /\ transcript' = messages'
      BY <1>8, <2>1, <2>2, <2>3, <2>4, <2>6, UptoNext
      DEF EmitResults, EmitResultMessage, Emit
    <3>2. sequential' = sequential /\ cur' = cur
      BY <1>8 DEF EmitResults
    <3>3. QED
      BY <3>1, <3>2, <2>1, <2>4 DEF MessagesInv, Preparing
  <2>7. QED
    BY <2>5, <2>6
<1>9. CASE Return
  <2>1. ~sequential /\ finalizedCalls = Upto(cur) /\ transcript = messages
    BY <1>9 DEF Return, ModeInv, FinalizedInv, MessagesInv, Preparing
  <2>2. PICK k \in 0..cur : messages = Upto(k)
    BY <1>9, <2>1 DEF Return, MessagesInv
  <2>3. k = cur
    BY <1>9, <2>1, <2>2, UptoLen, CallsAreNumbers, SMTT(30) DEF Return, TypeOK, DriverTypeOK
  <2>4. QED
    BY <1>9, <2>1, <2>2, <2>3 DEF Return, MessagesInv, outVars, Preparing
<1>10. CASE Abort
  BY <1>10 DEF Abort, MessagesInv, FinalizedInv, Preparing, TypeOK, DriverTypeOK,
      ModeInv, outVars
<1>11. ASSUME NEW c \in Calls, Update(c) PROVE MessagesInv'
  BY <1>11 DEF Update, MessagesInv, FinalizedInv, Preparing, TypeOK, DriverTypeOK,
      ModeInv, outVars
<1>12. ASSUME NEW c \in Calls, UpdateDelivered(c) PROVE MessagesInv'
  BY <1>12 DEF UpdateDelivered, MessagesInv, FinalizedInv, Preparing, TypeOK,
      DriverTypeOK, ModeInv, outVars
<1>13. ASSUME NEW c \in Calls, Settle(c) PROVE MessagesInv'
  BY <1>13 DEF Settle, MessagesInv, FinalizedInv, Preparing, TypeOK, DriverTypeOK,
      ModeInv, outVars
<1>14. ASSUME NEW c \in Calls, Executed(c) PROVE MessagesInv'
  BY <1>14 DEF Executed, MessagesInv, FinalizedInv, Preparing, TypeOK, DriverTypeOK,
      ModeInv, outVars
<1>15. ASSUME NEW c \in Calls, Finalize(c) PROVE MessagesInv'
  BY <1>15 DEF Finalize, MessagesInv, FinalizedInv, Preparing, TypeOK, DriverTypeOK,
      ModeInv, outVars
<1>16. ASSUME NEW c \in Calls, EmitEndConcurrent(c) PROVE MessagesInv'
  BY <1>16 DEF EmitEndConcurrent, Emit, ThunksRun, MessagesInv, FinalizedInv,
      Preparing, TypeOK, DriverTypeOK, ModeInv, outVars
<1>17. CASE UNCHANGED vars
  BY <1>17
  DEF vars, callVars, outVars, MessagesInv, FinalizedInv, Preparing, TypeOK,
      DriverTypeOK, ModeInv
<1>18. QED
  BY <1>1, <1>2, <1>3, <1>4, <1>5, <1>6, <1>7, <1>8, <1>9, <1>10, <1>11,
     <1>12, <1>13, <1>14, <1>15, <1>16, <1>17 DEF Next, Driver, CallStep,
     Done

(* The invariant holds initially ... *)
LEMMA BatchInvInit == Init => BatchInv
<1> SUFFICES ASSUME Init PROVE BatchInv
  OBVIOUS
<1>1. CursorInv /\ EarlierInv
  BY CallsAreNumbers, FirstCall, SMTT(30) DEF Init, CursorInv, EarlierInv, Preparing
<1>2. PendingInv /\ UpdatesInv
  BY DEF Init, PendingInv, UpdatesInv
<1>3. ModeInv /\ ShortInv
  BY DEF Init, ModeInv, ShortInv
<1>4. FinalizedInv
  BY UptoZero, SMTT(30) DEF Init, FinalizedInv, Preparing
<1>5. MessagesInv
  BY DEF Init, MessagesInv
<1>6. QED
  BY <1>1, <1>2, <1>3, <1>4, <1>5 DEF BatchInv

(* ... and every step keeps it. *)
LEMMA BatchInvStep == TypeOK /\ BatchInv /\ [Next]_vars => BatchInv'
BY CursorInvStep, EarlierInvStep, PendingInvStep, UpdatesInvStep, ModeInvStep,
   ShortInvStep, FinalizedInvStep, MessagesInvStep DEF BatchInv

(* BatchInv holds in every reachable state. *)
THEOREM BatchInvariant == Spec => []BatchInv
BY TypeCorrect, BatchInvInit, BatchInvStep, PTL DEF Spec

(* For any number of tool calls, whatever the order in which they complete, the
   driver returns one result message per started call, in source order, and the
   agent state holds the same. *)
THEOREM ResultsOrdered == Spec => []ResultsInSourceOrder
<1>1. BatchInv => ResultsInSourceOrder
  BY DEF BatchInv, FinalizedInv, MessagesInv, ResultsInSourceOrder, Preparing, Upto
<1>2. QED
  BY <1>1, BatchInvariant, PTL

(* Only an aborted batch leaves calls out. *)
THEOREM ShortOnlyWhenAborted == Spec => []ShortBatchWasAborted
<1>1. BatchInv => ShortBatchWasAborted
  BY DEF BatchInv, ShortInv, ShortBatchWasAborted
<1>2. QED
  BY <1>1, BatchInvariant, PTL

(* A returned batch leaves no running tool, no undelivered update and no pending
   tool call behind. *)
THEOREM ReturnIsFinal == Spec => []NothingOutlivesReturn
<1>1. TypeOK /\ BatchInv => NothingOutlivesReturn
  <2> SUFFICES ASSUME TypeOK, BatchInv, pc = "returned"
               PROVE  /\ \A c \in Calls : ~Running(c) /\ updating[c] = 0
                      /\ pendingToolCalls = {}
    BY DEF NothingOutlivesReturn
  <2>1. \A c \in Calls : phase[c] \in {"idle", "ended"}
    BY CallsAreNumbers, SMTT(30) DEF BatchInv, CursorInv, EarlierInv, TypeOK, DriverTypeOK
  <2>2. QED
    BY <2>1 DEF BatchInv, PendingInv, UpdatesInv, Running
<1>2. QED
  BY <1>1, TypeCorrect, BatchInvariant, PTL

(* The end of a call is emitted after all its updates have been delivered. *)
THEOREM UpdatesBeforeEnd == Spec => []UpdatesPrecedeEnd
<1>1. BatchInv => UpdatesPrecedeEnd
  BY DEF BatchInv, UpdatesInv, UpdatesPrecedeEnd
<1>2. QED
  BY <1>1, BatchInvariant, PTL

(* A call that was idle when the signal was aborted: it may still be started,
   and is then answered at once with an error. *)
Stopped(c) == aborted /\ phase[c] \in {"idle", "started", "finalized", "ended"}

(* No step leads out of Stopped: prepareToolCall tests the signal last, and only
   calls it has prepared are executed. *)
LEMMA StoppedStep ==
  ASSUME NEW c \in Calls, TypeOK, Stopped(c), [Next]_vars
  PROVE  Stopped(c)'
<1> USE DEF Stopped, TypeOK, DriverTypeOK, CallTypeOK
<1>1. CASE EmitStart
  BY <1>1 DEF EmitStart
<1>2. CASE PrepareImmediate
  BY <1>2 DEF PrepareImmediate
<1>3. CASE Prepare
  BY <1>3 DEF Prepare, NotAborted
<1>4. CASE EmitEnd
  BY <1>4 DEF EmitEnd
<1>5. CASE EmitResult \/ EmitResults
  BY <1>5 DEF EmitResult, EmitResults
<1>6. CASE Check
  BY <1>6 DEF Check
<1>7. CASE Join \/ Return \/ Done \/ UNCHANGED vars
  BY <1>7 DEF Join, Return, Done, vars
<1>8. CASE Abort
  BY <1>8 DEF Abort
<1>9. CASE \E d \in Calls : CallStep(d) \/ Update(d)
  <2>1. PICK d \in Calls : CallStep(d) \/ Update(d)
    BY <1>9
  <2>2. CASE UpdateDelivered(d) \/ Update(d)
    BY <2>2 DEF UpdateDelivered, Update
  <2>3. CASE Settle(d)
    BY <2>3 DEF Settle
  <2>4. CASE Executed(d)
    BY <2>4 DEF Executed
  <2>5. CASE Finalize(d)
    BY <2>5 DEF Finalize
  <2>6. CASE EmitEndConcurrent(d)
    BY <2>6 DEF EmitEndConcurrent
  <2>7. QED
    BY <2>1, <2>2, <2>3, <2>4, <2>5, <2>6 DEF CallStep
<1>10. QED
  BY <1>1, <1>2, <1>3, <1>4, <1>5, <1>6, <1>7, <1>8, <1>9 DEF Next, Driver

(* For any number of calls: whichever driver runs the batch and wherever the
   abort falls, a call that had not been started by then is never executed. *)
THEOREM AbortStopsCalls == Spec => AbortStopsLaterCalls
<1>1. ASSUME NEW c \in Calls
      PROVE  Spec => [](aborted /\ phase[c] = "idle"
                          => [](phase[c] \notin {"prepared", "executing"}))
  <2>1. TypeOK /\ Stopped(c) /\ [Next]_vars => Stopped(c)'
    BY StoppedStep
  <2>2. aborted /\ phase[c] = "idle" => Stopped(c)
    BY DEF Stopped
  <2>3. Stopped(c) => phase[c] \notin {"prepared", "executing"}
    BY DEF Stopped
  <2>4. QED
    BY <2>1, <2>2, <2>3, TypeCorrect, PTL DEF Spec
<1>2. QED
  BY <1>1 DEF AbortStopsLaterCalls
=============================================================================
