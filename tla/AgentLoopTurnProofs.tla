------------------------- MODULE AgentLoopTurnProofs -------------------------
(***************************************************************************)
(* What a run of the agent emits: turns that open and close, a run in the  *)
(* explicit mode that ends with the finish tool or the terminal message,   *)
(* and a report of the run that is what the transcript gained.             *)
(***************************************************************************)
EXTENDS AgentLoopProofs

(* A leaf that names no prover is Zenon's. *)
USE Zenon

-----------------------------------------------------------------------------
(* Turns.  The events that open and close a turn, and the end of the run; in what
   is still to be emitted they come in this order, each at most once. *)
Brackets == {"turn_start", "turn_end", "agent_end"}
Rank(t) == IF t = "turn_start" THEN 1 ELSE IF t = "turn_end" THEN 2 ELSE 3

Has(s, t) == \E i \in DOMAIN s : s[i].type = t

Ordered(s) ==
  \A i, j \in DOMAIN s :
    i < j /\ s[i].type \in Brackets /\ s[j].type \in Brackets => Rank(s[i].type) < Rank(s[j].type)

(* Which of them s has. *)
Shape(s, opens, closes, ends) ==
  /\ Ordered(s)
  /\ Has(s, "turn_start") <=> opens
  /\ Has(s, "turn_end") <=> closes
  /\ Has(s, "agent_end") <=> ends

(* No bracket, and then s. *)
LEMMA ShapeBehind ==
  ASSUME NEW p \in Seq(EventType), \A i \in DOMAIN p : p[i].type \notin Brackets,
         NEW s \in Seq(EventType), NEW opens, NEW closes, NEW ends,
         Shape(s, opens, closes, ends)
  PROVE  Shape(p \o s, opens, closes, ends)
<1> DEFINE c == p \o s
           n == Len(p)
<1>1. /\ n \in Nat /\ Len(s) \in Nat /\ Len(c) = n + Len(s) /\ DOMAIN c = 1..(n + Len(s))
      /\ DOMAIN s = 1..Len(s) /\ DOMAIN p = 1..n
      /\ \A i \in 1..(n + Len(s)) : c[i] = IF i <= n THEN p[i] ELSE s[i - n]
  BY ConcatParts, SMTT(30)
<1> HIDE DEF c, n
<1>2. ASSUME NEW i \in DOMAIN c, c[i].type \in Brackets
      PROVE  i > n /\ i - n \in DOMAIN s /\ c[i] = s[i - n]
  <2>1. i \in 1..(n + Len(s))
    BY <1>1
  <2>2. CASE i <= n
    <3>1. i \in 1..n
      BY <1>1, <2>1, <2>2, SMTT(30)
    <3>2. c[i] = p[i]
      BY <1>1, <2>1, <2>2
    <3> QED
      BY <1>1, <1>2, <3>1, <3>2
  <2>3. CASE ~(i <= n)
    <3>1. i > n /\ i - n \in 1..Len(s)
      BY <1>1, <2>1, <2>3, SMTT(30)
    <3> QED
      BY <1>1, <2>1, <2>3, <3>1
  <2> QED
    BY <2>2, <2>3
<1>3. Ordered(c)
  <2> SUFFICES ASSUME NEW i \in DOMAIN c, NEW j \in DOMAIN c, i < j,
                      c[i].type \in Brackets, c[j].type \in Brackets
               PROVE  Rank(c[i].type) < Rank(c[j].type)
    BY DEF Ordered
  <2>1. /\ i - n \in DOMAIN s /\ c[i] = s[i - n] /\ j - n \in DOMAIN s /\ c[j] = s[j - n]
        /\ i - n < j - n
    <3>1. /\ i - n \in DOMAIN s /\ c[i] = s[i - n] /\ j - n \in DOMAIN s /\ c[j] = s[j - n]
      BY <1>2
    <3>2. i \in Int /\ j \in Int /\ n \in Int
      BY <1>1, SMTT(30)
    <3>3. ASSUME NEW a \in Int, NEW b \in Int, NEW d \in Int, a < b PROVE a - d < b - d
      BY <3>3, SMTT(30)
    <3>4. i - n < j - n
      BY <3>2, <3>3
    <3> QED
      BY <3>1, <3>4
  <2> QED
    BY <2>1 DEF Shape, Ordered
<1>4. ASSUME NEW t \in Brackets PROVE Has(c, t) <=> Has(s, t)
  <2>1. ASSUME Has(s, t) PROVE Has(c, t)
    <3>1. PICK i \in DOMAIN s : s[i].type = t
      BY <2>1 DEF Has
    <3>2. n + i \in DOMAIN c /\ c[n + i] = s[i]
      BY <1>1, SMTT(30)
    <3> QED
      BY <3>1, <3>2 DEF Has
  <2>2. ASSUME Has(c, t) PROVE Has(s, t)
    BY <1>2, <2>2 DEF Has
  <2> QED
    BY <2>1, <2>2
<1> QED
  BY <1>3, <1>4 DEF Shape, Brackets, c

(* Brackets in front. *)
LEMMA ShapeFirst ==
  ASSUME NEW e \in EventType, NEW s \in Seq(EventType),
         NEW opens, NEW closes, NEW ends, Shape(s, opens, closes, ends)
  PROVE  /\ e.type = "turn_start" /\ ~opens => Shape(<<e>> \o s, TRUE, closes, ends)
         /\ e.type = "turn_end" /\ ~opens /\ ~closes => Shape(<<e>> \o s, opens, TRUE, ends)
         /\ e.type = "agent_end" /\ ~opens /\ ~closes /\ ~ends =>
              Shape(<<e>> \o s, opens, closes, TRUE)
         /\ e.type \notin Brackets => Shape(<<e>> \o s, opens, closes, ends)
<1> DEFINE c == <<e>> \o s
<1>1. /\ Len(s) \in Nat /\ DOMAIN c = 1..(1 + Len(s)) /\ DOMAIN s = 1..Len(s) /\ c[1] = e
      /\ \A i \in 2..(1 + Len(s)) : c[i] = s[i - 1]
  BY SMTT(30)
<1> HIDE DEF c
<1>2. ASSUME NEW t PROVE Has(c, t) <=> e.type = t \/ Has(s, t)
  <2>1. ASSUME NEW i \in DOMAIN s, s[i].type = t PROVE Has(c, t)
    <3>1. i + 1 \in DOMAIN c /\ c[i + 1] = s[i]
      <4>1. DOMAIN c = 1..(1 + Len(s)) /\ DOMAIN s = 1..Len(s) /\ Len(s) \in Nat
        BY <1>1
      <4>2. i + 1 \in 2..(1 + Len(s)) /\ i + 1 \in 1..(1 + Len(s)) /\ (i + 1) - 1 = i
        BY <4>1, SMTT(30)
      <4>3. c[i + 1] = s[(i + 1) - 1]
        BY <1>1, <4>2
      <4> QED
        BY <4>1, <4>2, <4>3
    <3> QED
      BY <2>1, <3>1 DEF Has
  <2>2. ASSUME NEW i \in DOMAIN c, c[i].type = t PROVE e.type = t \/ Has(s, t)
    <3>1. i = 1 \/ (i - 1 \in DOMAIN s /\ c[i] = s[i - 1])
      <4>1. DOMAIN c = 1..(1 + Len(s)) /\ DOMAIN s = 1..Len(s) /\ Len(s) \in Nat
        BY <1>1
      <4>2. i = 1 \/ (i \in 2..(1 + Len(s)) /\ i - 1 \in 1..Len(s))
        BY <4>1, SMTT(30)
      <4> QED
        BY <1>1, <4>1, <4>2
    <3> QED
      BY <1>1, <2>2, <3>1 DEF Has
  <2>3. 1 \in DOMAIN c
    BY <1>1, SMTT(30)
  <2> QED
    BY <1>1, <2>1, <2>2, <2>3 DEF Has
<1>3. ASSUME \A t \in Brackets : Has(s, t) /\ e.type \in Brackets => Rank(e.type) < Rank(t)
      PROVE  Ordered(c)
  <2> SUFFICES ASSUME NEW i \in DOMAIN c, NEW j \in DOMAIN c, i < j,
                      c[i].type \in Brackets, c[j].type \in Brackets
               PROVE  Rank(c[i].type) < Rank(c[j].type)
    BY DEF Ordered
  <2>1. j - 1 \in DOMAIN s /\ c[j] = s[j - 1]
    <3>1. DOMAIN c = 1..(1 + Len(s)) /\ DOMAIN s = 1..Len(s) /\ Len(s) \in Nat
      BY <1>1
    <3>2. j \in 2..(1 + Len(s)) /\ j - 1 \in 1..Len(s)
      BY <3>1, SMTT(30)
    <3> QED
      BY <1>1, <3>1, <3>2
  <2>2. CASE i = 1
    BY <1>1, <1>3, <2>1, <2>2 DEF Has
  <2>3. CASE i # 1
    <3>1. i - 1 \in DOMAIN s /\ c[i] = s[i - 1] /\ i - 1 < j - 1
      <4>1. DOMAIN c = 1..(1 + Len(s)) /\ DOMAIN s = 1..Len(s) /\ Len(s) \in Nat
        BY <1>1
      <4>2. i \in 2..(1 + Len(s)) /\ i - 1 \in 1..Len(s) /\ i - 1 < j - 1
        BY <2>3, <4>1, SMTT(30)
      <4> QED
        BY <1>1, <4>1, <4>2
    <3> QED
      BY <2>1, <3>1 DEF Shape, Ordered
  <2> QED
    BY <2>2, <2>3
<1>4. Shape(s, opens, closes, ends)
  OBVIOUS
<1> QED
  BY <1>2, <1>3, <1>4, SMTT(30) DEF Shape, Brackets, Rank, c

(* The sequences of events that the exits of runLoop emit. *)
LEMMA Shapes ==
  ASSUME Len(queued) \in Nat
  PROVE  /\ Shape(<<>>, FALSE, FALSE, FALSE)
         /\ Shape(<<TurnStart>>, TRUE, FALSE, FALSE)
         /\ Shape(<<TurnEnd>>, FALSE, TRUE, FALSE)
         /\ Shape(<<AgentEnd>>, FALSE, FALSE, TRUE)
         /\ Shape(<<TurnEnd, AgentEnd>>, FALSE, TRUE, TRUE)
         /\ \A m \in MessageIds :
              /\ Shape(<<Message(m), TurnEnd, AgentEnd>>, FALSE, TRUE, TRUE)
              /\ Shape(<<TurnStart, Announce(m), TurnEnd, AgentEnd>>, TRUE, TRUE, TRUE)
              /\ Shape(<<TurnStart, Message(m), TurnEnd, AgentEnd>>, TRUE, TRUE, TRUE)
<1>1. /\ TurnStart \in EventType /\ TurnEnd \in EventType /\ AgentEnd \in EventType
      /\ TurnStart.type = "turn_start" /\ TurnEnd.type = "turn_end"
      /\ AgentEnd.type = "agent_end"
  BY EventsTyped DEF TurnStart, TurnEnd, AgentEnd, Event
<1>2. ASSUME NEW m \in MessageIds
      PROVE  /\ Message(m) \in EventType /\ Announce(m) \in EventType
             /\ Message(m).type \notin Brackets /\ Announce(m).type \notin Brackets
  BY EventsTyped DEF Message, Announce, Brackets
<1>3. Shape(<<>>, FALSE, FALSE, FALSE)
  BY SMTT(30) DEF Shape, Has, Ordered
<1>4. /\ Shape(<<TurnStart>>, TRUE, FALSE, FALSE) /\ Shape(<<TurnEnd>>, FALSE, TRUE, FALSE)
      /\ Shape(<<AgentEnd>>, FALSE, FALSE, TRUE)
  <2>1. /\ <<TurnStart>> = <<TurnStart>> \o <<>> /\ <<TurnEnd>> = <<TurnEnd>> \o <<>>
        /\ <<AgentEnd>> = <<AgentEnd>> \o <<>> /\ <<>> \in Seq(EventType)
    BY SMTT(30)
  <2> QED
    BY <1>1, <1>3, <2>1, ShapeFirst
<1>5. Shape(<<TurnEnd, AgentEnd>>, FALSE, TRUE, TRUE)
  <2>1. <<TurnEnd, AgentEnd>> = <<TurnEnd>> \o <<AgentEnd>> /\ <<AgentEnd>> \in Seq(EventType)
    BY <1>1, SMTT(30)
  <2> QED
    BY <1>1, <1>4, <2>1, ShapeFirst
<1>6. ASSUME NEW m \in MessageIds, NEW e \in {Message(m), Announce(m)}
      PROVE  /\ Shape(<<e, TurnEnd, AgentEnd>>, FALSE, TRUE, TRUE)
             /\ Shape(<<TurnStart, e, TurnEnd, AgentEnd>>, TRUE, TRUE, TRUE)
  <2>0. e \in EventType /\ e.type \notin Brackets
    BY <1>2
  <2>1. /\ <<e, TurnEnd, AgentEnd>> = <<e>> \o <<TurnEnd, AgentEnd>>
        /\ <<TurnEnd, AgentEnd>> \in Seq(EventType)
        /\ <<e, TurnEnd, AgentEnd>> \in Seq(EventType)
    BY <1>1, <2>0, SMTT(30)
  <2>2. <<TurnStart, e, TurnEnd, AgentEnd>> = <<TurnStart>> \o <<e, TurnEnd, AgentEnd>>
    BY <1>1, <2>0, SMTT(30)
  <2>3. Shape(<<e, TurnEnd, AgentEnd>>, FALSE, TRUE, TRUE)
    BY <1>5, <2>0, <2>1, ShapeFirst
  <2> QED
    BY <1>1, <2>1, <2>2, <2>3, ShapeFirst
<1> QED
  BY <1>3, <1>4, <1>5, <1>6

(* The steps of runLoop, by where they go and which brackets they emit: *)
Forward == {<<"poll", "loop">>, <<"mode", "limit">>, <<"limit", "request">>,
            <<"request", "stream">>, <<"stream", "received">>, <<"received", "execute">>,
            <<"execute", "executed">>, <<"length", "terminate">>,
            <<"terminate", "protocol">>, <<"protocol", "prepare">>, <<"prepare", "stop">>,
            <<"stop", "pollSteering">>, <<"pollSteering", "loop">>,
            <<"pollSteering", "pollFollowUp">>, <<"pollFollowUp", "loop">>}

(* no bracket, *)
GoesOn == /\ <<pc, pc'>> \in Forward
          /\ Shape(out', FALSE, FALSE, FALSE) /\ firstTurn' = firstTurn
(* the start of a turn, unless runAgentLoop has started it, *)
OpensTurn == /\ pc = "loop" /\ pc' = "mode"
             /\ Shape(out', ~firstTurn, FALSE, FALSE) /\ firstTurn' = FALSE
(* the end of a turn, *)
ClosesTurn == /\ pc \in {"received", "executed"} /\ pc' = "length"
              /\ Shape(out', FALSE, TRUE, FALSE) /\ firstTurn' = firstTurn
(* the end of the run in the middle of a turn, *)
EndsInTurn == /\ pc \in {"limit", "received"} /\ pc' = "ended"
              /\ Shape(out', FALSE, TRUE, TRUE) /\ firstTurn' = firstTurn
(* and between two turns, perhaps with a turn of its own. *)
EndsBetween == /\ pc \in {"length", "terminate", "protocol", "stop", "pollFollowUp"}
               /\ pc' = "ended" /\ firstTurn' = firstTurn
               /\ \E own \in BOOLEAN : Shape(out', own, own, TRUE)

(* There are no others. *)
LEMMA LoopMoves ==
  ASSUME ScalarsOK, DataOK, LoopStep
  PROVE  GoesOn \/ OpensTurn \/ ClosesTurn \/ EndsInTurn \/ EndsBetween
<1> DEFINE goal == GoesOn \/ OpensTurn \/ ClosesTurn \/ EndsInTurn \/ EndsBetween
           plain(s) == s \in Seq(EventType) /\ \A i \in DOMAIN s : s[i].type \notin Brackets
<1> SUFFICES goal
  OBVIOUS
<1>30. Len(queued) \in Nat
  BY SMTT(30) DEF DataOK
<1>31. /\ Shape(<<>>, FALSE, FALSE, FALSE) /\ Shape(<<TurnEnd>>, FALSE, TRUE, FALSE)
       /\ Shape(<<AgentEnd>>, FALSE, FALSE, TRUE)
       /\ Shape(<<TurnEnd, AgentEnd>>, FALSE, TRUE, TRUE)
       /\ Shape(<<TurnStart>>, TRUE, FALSE, FALSE)
       /\ \A m \in MessageIds :
            /\ Shape(<<Message(m), TurnEnd, AgentEnd>>, FALSE, TRUE, TRUE)
            /\ Shape(<<TurnStart, Announce(m), TurnEnd, AgentEnd>>, TRUE, TRUE, TRUE)
            /\ Shape(<<TurnStart, Message(m), TurnEnd, AgentEnd>>, TRUE, TRUE, TRUE)
  BY <1>30, Shapes
<1>32. /\ Internal \in MessageIds /\ Terminal \in MessageIds
       /\ Assistant \in MessageIds /\ ToolResult \in MessageIds
  BY <1>30, MessageNumbers
<1>33. /\ TurnStart \in EventType /\ TurnEnd \in EventType /\ AgentEnd \in EventType
       /\ Protocol \in EventType /\ RequestStart \in EventType
       /\ Message(Internal) \in EventType /\ Message(Terminal) \in EventType
       /\ Announce(Terminal) \in EventType
       /\ Announce(Assistant) \in EventType /\ Announce(ToolResult) \in EventType
  BY <1>32, EventsTyped
<1>34. /\ Protocol.type \notin Brackets /\ RequestStart.type \notin Brackets
       /\ \A m : Message(m).type \notin Brackets /\ Announce(m).type \notin Brackets
  BY DEF Protocol, RequestStart, Event, Message, Announce, Brackets
<1>35. /\ plain(<<>>) /\ plain(<<Protocol>>) /\ plain(<<RequestStart>>)
       /\ plain(<<Announce(Assistant)>>) /\ plain(<<Announce(ToolResult)>>)
       /\ plain(<<Message(Internal)>>) /\ plain(<<Protocol, Message(Internal)>>)
  <2>1. ASSUME NEW e \in EventType, e.type \notin Brackets PROVE plain(<<e>>)
    BY <2>1, SMTT(30)
  <2>2. ASSUME NEW e \in EventType, NEW f \in EventType,
               e.type \notin Brackets, f.type \notin Brackets
        PROVE  plain(<<e, f>>)
    BY <2>2, SMTT(30)
  <2>3. plain(<<>>)
    BY SMTT(30)
  <2> HIDE DEF plain
  <2> QED
    BY <1>33, <1>34, <2>1, <2>2, <2>3
<1>36. ASSUME NEW s, plain(s) PROVE Shape(s, FALSE, FALSE, FALSE)
  <2>1. s \o <<>> = s /\ <<>> \in Seq(EventType)
    BY <1>36, ConcatEmptySeq, SMTT(30)
  <2> QED
    BY <1>31, <1>36, <2>1, ShapeBehind
<1>37. ASSUME NEW c PROVE Shape(When(c, <<Protocol>>), FALSE, FALSE, FALSE)
  BY <1>31, <1>35, <1>36 DEF When
<1>38. ASSUME NEW c PROVE Shape(When(c, <<Protocol, Message(Internal)>>), FALSE, FALSE, FALSE)
  BY <1>31, <1>35, <1>36 DEF When
<1>39. ASSUME ProtocolFailure(FALSE) PROVE pc' = "ended" /\ Shape(out', TRUE, TRUE, TRUE)
  <2>1. /\ pc' = "ended"
        /\ out' = <<Protocol>> \o When(~FALSE, <<TurnStart>>)
                    \o <<Message(Terminal), TurnEnd, AgentEnd>>
    BY <1>39 DEF ProtocolFailure, Goto
  <2>2. /\ out' = <<Protocol>> \o <<TurnStart, Message(Terminal), TurnEnd, AgentEnd>>
        /\ <<TurnStart, Message(Terminal), TurnEnd, AgentEnd>> \in Seq(EventType)
    BY <1>33, <2>1, SMTT(30) DEF When
  <2> QED
    BY <1>31, <1>32, <1>33, <1>34, <2>1, <2>2, ShapeFirst, ZenonT(40)
<1> HIDE DEF plain
<1>1. CASE PollInitial
  <2>1. /\ pc = "poll" /\ pc' = "loop" /\ firstTurn' = firstTurn
        /\ out' = When(Enabled(completionMode), <<Protocol>>)
    BY <1>1 DEF PollInitial, At, Goto
  <2> QED
    BY <2>1, <1>37 DEF GoesOn, Forward
<1>2. CASE BeginTurn
  <2> DEFINE s == MessageEvents(pending)
  <2>1. /\ pc = "loop" /\ pc' = "mode" /\ firstTurn' = FALSE
        /\ out' = When(~firstTurn, <<TurnStart>>) \o s
    BY <1>2 DEF BeginTurn, At, Goto
  <2>2. pending \in Seq(MessageIds)
    BY <1>30, MessageNumbers, SeqMonotonic DEF DataOK
  <2>3. plain(s)
    <3>1. /\ s \in Seq(EventType) /\ Len(s) = Len(pending)
          /\ \A i \in 1..Len(pending) : s[i] = Message(pending[i])
      BY <2>2, ListsTyped
    <3>2. DOMAIN s = 1..Len(pending)
      BY <3>1, SMTT(30)
    <3> HIDE DEF s
    <3> QED
      BY <1>34, <3>1, <3>2 DEF plain
  <2> HIDE DEF s
  <2>4. Shape(s, FALSE, FALSE, FALSE) /\ s \in Seq(EventType)
    BY <1>36, <2>3 DEF plain
  <2>5. CASE firstTurn
    <3>1. out' = s
      BY <2>1, <2>4, <2>5, ConcatEmptySeq DEF When
    <3> QED
      BY <2>1, <2>4, <2>5, <3>1 DEF OpensTurn
  <2>6. CASE ~firstTurn
    <3>1. out' = <<TurnStart>> \o s
      BY <2>1, <2>6 DEF When
    <3>2. Shape(out', TRUE, FALSE, FALSE)
      BY <1>33, <2>4, <3>1, ShapeFirst DEF TurnStart, Event
    <3> QED
      BY <2>1, <2>6, <3>2 DEF OpensTurn
  <2> QED
    BY <2>5, <2>6
<1>3. CASE ResolveMode
  <2>1. /\ pc = "mode" /\ pc' = "limit" /\ firstTurn' = firstTurn
        /\ out' = When(configMode # completionMode /\ Enabled(configMode), <<Protocol>>)
    BY <1>3 DEF ResolveMode, At, Goto, loopVars
  <2> QED
    BY <2>1, <1>37 DEF GoesOn, Forward
<1>4. CASE StopAtMaxTurns
  <2>1. /\ pc = "limit" /\ pc' = "ended" /\ firstTurn' = firstTurn
        /\ out' = <<Protocol>> \o When(~TRUE, <<TurnStart>>)
                    \o <<Message(Terminal), TurnEnd, AgentEnd>>
    BY <1>4 DEF StopAtMaxTurns, At, Goto, ProtocolFailure, loopVars
  <2>2. /\ out' = <<Protocol>> \o <<Message(Terminal), TurnEnd, AgentEnd>>
        /\ <<Message(Terminal), TurnEnd, AgentEnd>> \in Seq(EventType)
    BY <1>33, <2>1, SMTT(30) DEF When
  <2>3. Shape(out', FALSE, TRUE, TRUE)
    BY <1>31, <1>32, <1>33, <1>34, <2>2, ShapeFirst, ZenonT(40)
  <2> QED
    BY <2>1, <2>3 DEF EndsInTurn
<1>5. CASE PrepareRequest
  <2>1. /\ pc = "limit" /\ pc' = "request" /\ firstTurn' = firstTurn
        /\ out' = <<RequestStart>>
    BY <1>5 DEF PrepareRequest, At, Goto, loopVars
  <2> QED
    BY <2>1, <1>35, <1>36 DEF GoesOn, Forward
<1>6. CASE Request
  <2>1. /\ pc = "request" /\ pc' = "stream" /\ firstTurn' = firstTurn
        /\ out' = <<>>
    BY <1>6 DEF Request, At, Goto, loopVars
  <2> QED
    BY <2>1, <1>31 DEF GoesOn, Forward
<1>7. ASSUME NEW r \in Responses, Respond(r) PROVE goal
  <2>1. /\ pc = "stream" /\ pc' = "received" /\ firstTurn' = firstTurn
        /\ out' = <<Announce(Assistant)>>
    BY <1>7 DEF Respond, At, Goto
  <2> QED
    BY <2>1, <1>35, <1>36 DEF GoesOn, Forward
<1>8. CASE ReceiveFailure
  <2>1. /\ pc = "received" /\ pc' = "ended" /\ firstTurn' = firstTurn
        /\ out' = <<TurnEnd, AgentEnd>>
    BY <1>8 DEF ReceiveFailure, At, Goto, loopVars
  <2> QED
    BY <2>1, <1>31 DEF EndsInTurn
<1>9. CASE Receive
  <2>1. /\ pc = "received" /\ firstTurn' = firstTurn
        /\ \/ pc' = "execute" /\ out' = <<>>
           \/ pc' = "length" /\ out' = <<TurnEnd>>
    BY <1>9 DEF Receive, At, Goto
  <2> QED
    BY <2>1, <1>31 DEF GoesOn, Forward, ClosesTurn
<1>10. CASE ExecuteTools
  <2>1. /\ pc = "execute" /\ pc' = "executed" /\ firstTurn' = firstTurn
        /\ out' = <<Announce(ToolResult)>>
    BY <1>10 DEF ExecuteTools, At, Goto
  <2> QED
    BY <2>1, <1>35, <1>36 DEF GoesOn, Forward
<1>11. CASE RecordResults
  <2>1. /\ pc = "executed" /\ pc' = "length" /\ firstTurn' = firstTurn
        /\ out' = <<TurnEnd>>
    BY <1>11 DEF RecordResults, At, Goto
  <2> QED
    BY <2>1, <1>31 DEF ClosesTurn
<1>12. CASE RepetitiveOutput
  <2>1. /\ pc = "length" /\ firstTurn' = firstTurn
        /\ \/ ProtocolFailure(FALSE)
           \/ pc' = "terminate" /\ out' = <<Protocol, Message(Internal)>>
    BY <1>12 DEF RepetitiveOutput, At, Goto
  <2>2. CASE ProtocolFailure(FALSE)
    BY <1>39, <2>1, <2>2 DEF EndsBetween
  <2>3. CASE pc' = "terminate" /\ out' = <<Protocol, Message(Internal)>>
    BY <1>35, <1>36, <2>1, <2>3 DEF GoesOn, Forward
  <2> QED
    BY <2>1, <2>2, <2>3
<1>13. CASE ContinueAfterLength
  <2>1. /\ pc = "length" /\ pc' = "terminate" /\ firstTurn' = firstTurn
        /\ out' = <<Message(Internal)>>
    BY <1>13 DEF ContinueAfterLength, At, Goto
  <2> QED
    BY <2>1, <1>35, <1>36 DEF GoesOn, Forward
<1>14. CASE NoLengthContinuation
  <2>1. /\ pc = "length" /\ pc' = "terminate" /\ firstTurn' = firstTurn
        /\ out' = <<>>
    BY <1>14 DEF NoLengthContinuation, At, Goto, loopVars
  <2> QED
    BY <2>1, <1>31 DEF GoesOn, Forward
<1>15. CASE TerminateRun
  <2> DEFINE s == When(turn.batch.completion /\ Enabled(completionMode), <<Protocol>>)
  <2>1. /\ pc = "terminate" /\ pc' = "ended" /\ firstTurn' = firstTurn
        /\ out' = s \o <<AgentEnd>>
    BY <1>15 DEF TerminateRun, At, Goto, loopVars
  <2>2. plain(s) /\ <<AgentEnd>> \in Seq(EventType)
    BY <1>33, <1>35, SMTT(30) DEF When
  <2> HIDE DEF s
  <2>3. Shape(out', FALSE, FALSE, TRUE)
    BY <1>31, <2>1, <2>2, ShapeBehind DEF plain
  <2> QED
    BY <2>1, <2>3 DEF EndsBetween
<1>16. CASE RecordWaitingTurn
  <2>1. /\ pc = "terminate" /\ pc' = "protocol" /\ firstTurn' = firstTurn
        /\ \E warns : out' = When(warns, <<Protocol, Message(Internal)>>)
    BY <1>16 DEF RecordWaitingTurn, At, Goto
  <2> QED
    BY <2>1, <1>38 DEF GoesOn, Forward
<1>17. CASE NotJudged
  <2>1. /\ pc = "protocol" /\ pc' = "prepare" /\ firstTurn' = firstTurn
        /\ out' = <<>>
    BY <1>17 DEF NotJudged, At, Goto, loopVars
  <2> QED
    BY <2>1, <1>31 DEF GoesOn, Forward
<1>18. CASE FinishWork
  <2>1. /\ pc = "protocol" /\ pc' = "ended" /\ firstTurn' = firstTurn
        /\ out' = <<Protocol, AgentEnd>>
    BY <1>18 DEF FinishWork, At, Goto, loopVars
  <2>2. out' = <<Protocol>> \o <<AgentEnd>> /\ <<AgentEnd>> \in Seq(EventType)
    BY <1>33, <2>1, SMTT(30)
  <2>3. Shape(out', FALSE, FALSE, TRUE)
    BY <1>31, <1>33, <1>34, <2>2, ShapeFirst
  <2> QED
    BY <2>1, <2>3 DEF EndsBetween
<1>19. CASE JudgeTurn
  <2>1. /\ pc = "protocol" /\ firstTurn' = firstTurn
        /\ \/ ProtocolFailure(FALSE)
           \/ pc' = "prepare" /\ out' = <<>>
           \/ pc' = "prepare" /\ out' = <<Protocol, Message(Internal)>>
    BY <1>19 DEF JudgeTurn, At, Goto
  <2>2. CASE ProtocolFailure(FALSE)
    BY <1>39, <2>1, <2>2 DEF EndsBetween
  <2>3. CASE pc' = "prepare" /\ out' = <<>>
    BY <1>31, <2>1, <2>3 DEF GoesOn, Forward
  <2>4. CASE pc' = "prepare" /\ out' = <<Protocol, Message(Internal)>>
    BY <1>35, <1>36, <2>1, <2>4 DEF GoesOn, Forward
  <2> QED
    BY <2>1, <2>2, <2>3, <2>4
<1>20. CASE PrepareNextTurn
  <2>1. PICK k \in Appends : /\ pc = "prepare" /\ pc' = "stop" /\ firstTurn' = firstTurn
                             /\ out' = [i \in 1..k |-> Message(Internal)]
    BY <1>20 DEF PrepareNextTurn, At, Goto, loopVars
  <2>2. k \in Nat
    BY LoopAssumption
  <2>3. plain(out')
    BY <1>33, <1>34, <2>1, <2>2, SMTT(30) DEF plain
  <2> QED
    BY <1>36, <2>1, <2>3 DEF GoesOn, Forward
<1>21. CASE StopAborted
  <2>1. /\ pc = "stop" /\ pc' = "ended" /\ firstTurn' = firstTurn
        /\ out' = <<TurnStart, Announce(Terminal), TurnEnd, AgentEnd>>
    BY <1>21 DEF StopAborted, At, Goto, loopVars
  <2> QED
    BY <2>1, <1>31, <1>32 DEF EndsBetween
<1>22. CASE ShouldStopAfterTurn
  <2>1. /\ pc = "stop" /\ pc' = "ended" /\ firstTurn' = firstTurn /\ out' = <<AgentEnd>>
    BY <1>22 DEF ShouldStopAfterTurn, At, Goto, loopVars
  <2> QED
    BY <2>1, <1>31 DEF EndsBetween
<1>23. CASE DoNotStop
  <2>1. /\ pc = "stop" /\ pc' = "pollSteering" /\ firstTurn' = firstTurn
        /\ out' = <<>>
    BY <1>23 DEF DoNotStop, At, Goto, loopVars
  <2> QED
    BY <2>1, <1>31 DEF GoesOn, Forward
<1>24. CASE PollSteering
  <2>1. /\ pc = "pollSteering" /\ pc' \in {"loop", "pollFollowUp"}
        /\ firstTurn' = firstTurn /\ out' = <<>>
    BY <1>24 DEF PollSteering, At, Goto
  <2> QED
    BY <2>1, <1>31 DEF GoesOn, Forward
<1>25. CASE PollFollowUp
  <2>1. /\ pc = "pollFollowUp" /\ firstTurn' = firstTurn
        /\ \/ pc' = "loop" /\ out' = <<>>
           \/ pc' = "ended" /\ out' = <<AgentEnd>>
    BY <1>25 DEF PollFollowUp, At, Goto
  <2> QED
    BY <2>1, <1>31 DEF GoesOn, Forward, EndsBetween
<1> QED
  BY <1>1, <1>2, <1>3, <1>4, <1>5, <1>6, <1>7, <1>8, <1>9, <1>10, <1>11, <1>12,
     <1>13, <1>14, <1>15, <1>16, <1>17, <1>18, <1>19, <1>20, <1>21, <1>22,
     <1>23, <1>24, <1>25, ZenonT(40)
  DEF LoopStep

(* The brackets that may be still to be emitted at p ... *)
Awaited(p) ==
  IF p \in {"poll", "mode"} THEN {"turn_start"}
  ELSE IF p = "length" THEN {"turn_end"}
  ELSE IF p = "ended" THEN Brackets ELSE {}

(* ... and the turns that are open when all has been emitted. *)
InTurn == {"poll", "mode", "limit", "request", "stream", "received", "execute", "executed"}
OpenAfter == Incr(IF pc = "loop" THEN firstTurn ELSE pc \in InTurn)

(* What is open is what will be open, less what is still to be opened, plus what
   is still to be closed; the loop knows by firstTurn whether its first turn is
   open already. *)
TurnsInv ==
  throws = 0 =>
    /\ pc # "failing" /\ (pc # "idle" => runs > 0)
    /\ pc \in {"idle", "poll"} => firstTurn
    /\ pc \notin {"idle", "poll", "loop"} => ~firstTurn
    /\ Ordered(out)
    /\ \A t \in Brackets : Has(out, t) => t \in Awaited(pc)
    /\ pc = "ended" => /\ Has(out, "turn_start") => Has(out, "turn_end")
                       /\ Has(out, "turn_end") => Has(out, "agent_end")
    /\ openTurns = OpenAfter + Incr(Has(out, "turn_end")) - Incr(Has(out, "turn_start"))
    /\ agentEnds = IF pc = "idle" THEN Incr(runs > 0)
                   ELSE IF pc = "ended" THEN 1 - Incr(Has(out, "agent_end")) ELSE 0

(* The steps of runLoop keep TurnsInv, *)
LEMMA LoopTurns ==
  ASSUME ScalarsOK, DataOK, TurnsInv, LoopStep
  PROVE  TurnsInv'
<1>1. out = <<>> /\ UNCHANGED <<throws, runs, openTurns, agentEnds>>
  BY LoopFrame DEF runVars
<1> SUFFICES ASSUME throws = 0 PROVE TurnsInv'
  BY <1>1 DEF TurnsInv
<1>2. ASSUME NEW t PROVE ~Has(out, t)
  BY <1>1, SMTT(30) DEF Has
<1>3. /\ (pc # "idle" => runs > 0) /\ (pc \in {"idle", "poll"} => firstTurn)
      /\ (pc \notin {"idle", "poll", "loop"} => ~firstTurn)
      /\ openTurns = OpenAfter
      /\ pc \notin {"idle", "ended"} => agentEnds = 0
  BY <1>2, SMTT(30) DEF TurnsInv, OpenAfter, Incr
<1> DEFINE opens == Has(out', "turn_start")
           closes == Has(out', "turn_end")
           ends == Has(out', "agent_end")
<1>4. ASSUME /\ pc' \notin {"failing", "idle"} /\ pc # "idle" /\ pc # "ended"
             /\ pc' = "poll" => firstTurn'
             /\ pc' \notin {"poll", "loop"} => ~firstTurn'
             /\ Ordered(out')
             /\ opens => pc' \in {"poll", "mode", "ended"}
             /\ closes => pc' \in {"length", "ended"}
             /\ ends <=> pc' = "ended"
             /\ pc' = "ended" => (opens => closes)
             /\ OpenAfter' + Incr(closes) - Incr(opens) = OpenAfter
      PROVE  TurnsInv'
  <2>1. \A t \in Brackets : Has(out', t) => t \in Awaited(pc')
    BY <1>4 DEF Brackets, Awaited
  <2>2. /\ openTurns' = OpenAfter' + Incr(closes) - Incr(opens)
        /\ agentEnds' = IF pc' = "ended" THEN 1 - Incr(ends) ELSE 0
    BY <1>1, <1>3, <1>4, SMTT(30) DEF Incr
  <2> HIDE DEF opens, closes, ends
  <2>3. /\ pc' \notin {"failing", "idle"} /\ runs' > 0
        /\ pc' \in {"idle", "poll"} => firstTurn'
        /\ pc' \notin {"idle", "poll", "loop"} => ~firstTurn'
        /\ pc' = "ended" => (opens => closes) /\ (closes => ends)
    BY <1>1, <1>3, <1>4
  <2> QED
    BY <1>4, <2>1, <2>2, <2>3 DEF TurnsInv, opens, closes, ends
<1>5. CASE GoesOn
  <2>1. /\ Ordered(out') /\ ~opens /\ ~closes /\ ~ends /\ firstTurn' = firstTurn
        /\ <<pc, pc'>> \in Forward
    BY <1>5 DEF GoesOn, Shape
  <2>2. /\ pc' \notin {"failing", "idle", "ended", "poll"} /\ pc \notin {"idle", "ended"}
        /\ pc' \notin {"poll", "loop"} => ~firstTurn'
    BY <1>3, <2>1 DEF Forward
  <2>3. OpenAfter' = OpenAfter
    <3>1. \/ pc = "poll" /\ pc' = "loop"
          \/ pc \in {"pollSteering", "pollFollowUp"} /\ pc' = "loop"
          \/ pc \in InTurn \ {"poll"} /\ pc' \in InTurn
          \/ pc \notin InTurn \cup {"loop"} /\ pc' \notin InTurn \cup {"loop"}
      BY <2>1 DEF Forward, InTurn
    <3>2. "loop" \notin InTurn /\ "poll" \in InTurn
          /\ "pollSteering" \notin InTurn /\ "pollFollowUp" \notin InTurn
      BY DEF InTurn
    <3> QED
      BY <1>3, <2>1, <3>1, <3>2 DEF OpenAfter, Incr
  <2>4. OpenAfter \in Int
    BY SMTT(30) DEF OpenAfter, Incr
  <2>5. OpenAfter' + Incr(closes) - Incr(opens) = OpenAfter
    BY <2>1, <2>3, <2>4, SMTT(30) DEF Incr
  <2> QED
    BY <1>4, <2>1, <2>2, <2>5
<1>6. CASE OpensTurn
  <2>1. /\ Ordered(out') /\ (opens <=> ~firstTurn) /\ ~closes /\ ~ends /\ firstTurn' = FALSE
        /\ pc = "loop" /\ pc' = "mode"
    BY <1>6 DEF OpensTurn, Shape
  <2>2. OpenAfter' + Incr(closes) - Incr(opens) = OpenAfter
    BY <2>1, SMTT(30) DEF OpenAfter, InTurn, Incr
  <2> QED
    BY <1>4, <2>1, <2>2
<1>7. CASE ClosesTurn
  <2>1. /\ Ordered(out') /\ ~opens /\ closes /\ ~ends /\ firstTurn' = firstTurn
        /\ pc \in {"received", "executed"} /\ pc' = "length"
    BY <1>7 DEF ClosesTurn, Shape
  <2>2. OpenAfter' + Incr(closes) - Incr(opens) = OpenAfter
    BY <2>1, SMTT(30) DEF OpenAfter, InTurn, Incr
  <2> QED
    BY <1>3, <1>4, <2>1, <2>2
<1>8. CASE EndsInTurn
  <2>1. /\ Ordered(out') /\ ~opens /\ closes /\ ends /\ firstTurn' = firstTurn
        /\ pc \in {"limit", "received"} /\ pc' = "ended"
    BY <1>8 DEF EndsInTurn, Shape
  <2>2. OpenAfter' + Incr(closes) - Incr(opens) = OpenAfter
    BY <2>1, SMTT(30) DEF OpenAfter, InTurn, Incr
  <2> QED
    BY <1>3, <1>4, <2>1, <2>2
<1>9. CASE EndsBetween
  <2>1. /\ Ordered(out') /\ (opens <=> closes) /\ ends /\ firstTurn' = firstTurn
        /\ pc \in {"length", "terminate", "protocol", "stop", "pollFollowUp"} /\ pc' = "ended"
    BY <1>9 DEF EndsBetween, Shape
  <2>2. OpenAfter' + Incr(closes) - Incr(opens) = OpenAfter
    BY <2>1, SMTT(30) DEF OpenAfter, InTurn, Incr
  <2> QED
    BY <1>3, <1>4, <2>1, <2>2
<1> QED
  BY <1>5, <1>6, <1>7, <1>8, <1>9, LoopMoves, ZenonT(40)

(* What an emit leaves of the brackets. *)
LEMMA TailBrackets ==
  ASSUME NEW s \in Seq(EventType), s # <<>>
  PROVE  /\ Ordered(s) => Ordered(Tail(s))
         /\ \A t : Has(s, t) <=> Head(s).type = t \/ Has(Tail(s), t)
         /\ Ordered(s) /\ Head(s).type \in Brackets =>
              \A t \in Brackets : Has(Tail(s), t) => Rank(Head(s).type) < Rank(t)
<1> DEFINE r == Tail(s)
<1>1. /\ Len(s) \in Nat \ {0} /\ DOMAIN s = 1..Len(s) /\ DOMAIN r = 1..(Len(s) - 1)
      /\ Head(s) = s[1] /\ \A i \in 1..(Len(s) - 1) : r[i] = s[i + 1]
  BY HeadTail, SMTT(30)
<1> HIDE DEF r
<1>2. ASSUME NEW i \in DOMAIN r PROVE i + 1 \in DOMAIN s /\ r[i] = s[i + 1]
  BY <1>1, <1>2, SMTT(30)
<1>3. Ordered(s) => Ordered(r)
  <2> SUFFICES ASSUME Ordered(s), NEW i \in DOMAIN r, NEW j \in DOMAIN r, i < j,
                      r[i].type \in Brackets, r[j].type \in Brackets
               PROVE  Rank(r[i].type) < Rank(r[j].type)
    BY DEF Ordered
  <2>1. /\ i + 1 \in DOMAIN s /\ j + 1 \in DOMAIN s /\ i + 1 < j + 1
        /\ r[i] = s[i + 1] /\ r[j] = s[j + 1]
    BY <1>1, <1>2, SMTT(30)
  <2> QED
    BY <2>1 DEF Ordered
<1>4. ASSUME NEW t PROVE Has(s, t) <=> s[1].type = t \/ Has(r, t)
  <2>1. ASSUME NEW i \in DOMAIN s, s[i].type = t PROVE s[1].type = t \/ Has(r, t)
    <3>1. i = 1 \/ (i - 1 \in DOMAIN r /\ r[i - 1] = s[i])
      BY <1>1, SMTT(30)
    <3> QED
      BY <2>1, <3>1 DEF Has
  <2>2. 1 \in DOMAIN s
    BY <1>1, SMTT(30)
  <2> QED
    BY <1>2, <2>1, <2>2 DEF Has
<1>5. ASSUME Ordered(s), s[1].type \in Brackets, NEW t \in Brackets, Has(r, t)
      PROVE  Rank(s[1].type) < Rank(t)
  <2>1. PICK i \in DOMAIN r : r[i].type = t
    BY <1>5 DEF Has
  <2>2. 1 \in DOMAIN s /\ i + 1 \in DOMAIN s /\ s[i + 1].type = t /\ 1 < i + 1
    BY <1>1, <1>2, <2>1, SMTT(30)
  <2> QED
    BY <1>5, <2>2 DEF Ordered
<1> QED
  BY <1>1, <1>3, <1>4, <1>5 DEF r

(* an emit keeps it, *)
LEMMA EmitTurns ==
  ASSUME ScalarsOK, DataOK, TurnsInv, EmitNext
  PROVE  TurnsInv'
<1> DEFINE e == Head(out).type
           opens == Has(out, "turn_start")
           closes == Has(out, "turn_end")
           ends == Has(out, "agent_end")
<1>1. /\ out # <<>> /\ out' = Tail(out) /\ UNCHANGED <<throws, runs, pc, firstTurn>>
      /\ openTurns' = IF e = "turn_start" THEN openTurns + 1
                      ELSE IF e = "turn_end" THEN openTurns - 1 ELSE openTurns
      /\ agentEnds' = IF e = "agent_end" THEN agentEnds + 1 ELSE agentEnds
  BY DEF EmitNext, Reduce, runVars, loopVars
<1> SUFFICES ASSUME throws = 0 PROVE TurnsInv'
  BY <1>1 DEF TurnsInv
<1>2. /\ Ordered(out) /\ \A t \in Brackets : Has(out, t) => t \in Awaited(pc)
      /\ pc # "failing" /\ (pc # "idle" => runs > 0)
      /\ pc \in {"idle", "poll"} => firstTurn
      /\ pc \notin {"idle", "poll", "loop"} => ~firstTurn
      /\ pc = "ended" => (opens => closes) /\ (closes => ends)
      /\ openTurns = OpenAfter + Incr(closes) - Incr(opens)
      /\ agentEnds = IF pc = "idle" THEN Incr(runs > 0)
                     ELSE IF pc = "ended" THEN 1 - Incr(ends) ELSE 0
  BY DEF TurnsInv
<1>3. out \in Seq(EventType)
  BY DEF DataOK
<1>4. /\ Ordered(out') /\ \A t : Has(out, t) <=> e = t \/ Has(out', t)
      /\ e \in Brackets => \A t \in Brackets : Has(out', t) => Rank(e) < Rank(t)
  BY <1>1, <1>2, <1>3, TailBrackets
<1>5. OpenAfter' = OpenAfter /\ OpenAfter \in Int
  BY <1>1, SMTT(30) DEF OpenAfter, Incr
<1> DEFINE opens1 == Has(out', "turn_start")
           closes1 == Has(out', "turn_end")
           ends1 == Has(out', "agent_end")
<1>6. /\ e = "turn_start" => opens /\ ~opens1 /\ (closes <=> closes1) /\ (ends <=> ends1)
      /\ e = "turn_end" => ~opens /\ ~opens1 /\ closes /\ ~closes1 /\ (ends <=> ends1)
      /\ e = "agent_end" => ~opens /\ ~opens1 /\ ~closes /\ ~closes1 /\ ends /\ ~ends1
      /\ e \notin Brackets => (opens <=> opens1) /\ (closes <=> closes1) /\ (ends <=> ends1)
  BY <1>4, SMTT(30) DEF Brackets, Rank
<1>7. e = "agent_end" => pc = "ended"
  BY <1>2, <1>6, ZenonT(40) DEF Brackets, Awaited
<1> HIDE DEF e, opens, closes, ends, opens1, closes1, ends1
<1>8. openTurns' = OpenAfter' + Incr(closes1) - Incr(opens1)
  BY <1>1, <1>2, <1>5, <1>6, SMTT(30) DEF Incr, Brackets
<1>9. agentEnds' = IF pc = "idle" THEN Incr(runs > 0)
                   ELSE IF pc = "ended" THEN 1 - Incr(ends1) ELSE 0
  BY <1>1, <1>2, <1>6, <1>7, SMTT(30) DEF Incr, Brackets
<1>10. pc = "ended" => (opens1 => closes1) /\ (closes1 => ends1)
  BY <1>2, <1>6 DEF Brackets
<1>11. \A t \in Brackets : Has(out', t) => t \in Awaited(pc')
  BY <1>1, <1>2, <1>4
<1> QED
  BY <1>1, <1>2, <1>4, <1>8, <1>9, <1>10, <1>11, ZenonT(40) DEF TurnsInv, opens1, closes1, ends1

(* and so do the end of a run and the start of the next. *)
LEMMA RunTurns ==
  ASSUME ActiveInv, ScalarsOK, DataOK, TurnsInv, Settle \/ Starts
  PROVE  TurnsInv'
<1> SUFFICES ASSUME throws' = 0 PROVE TurnsInv'
  BY DEF TurnsInv
<1>1. CASE Settle
  <2>1. /\ pc' = "idle" /\ out' = <<>> /\ firstTurn' = TRUE /\ out = <<>>
        /\ pc \in {"ended", "failing"} /\ UNCHANGED <<throws, runs, openTurns, agentEnds>>
    BY <1>1 DEF Settle, FinishRun, runVars
  <2>2. ASSUME NEW t PROVE ~Has(out, t) /\ ~Has(out', t)
    BY <2>1, SMTT(30) DEF Has
  <2>3. pc = "ended" /\ runs > 0 /\ openTurns = 0 /\ agentEnds = 1
    BY <2>1, <2>2, SMTT(30) DEF TurnsInv, OpenAfter, InTurn, Incr
  <2>4. Ordered(out')
    BY <2>1, SMTT(30) DEF Ordered
  <2>5. OpenAfter' = 0
    BY <2>1 DEF OpenAfter, InTurn, Incr
  <2>6. openTurns' = 0 + Incr(Has(out', "turn_end")) - Incr(Has(out', "turn_start"))
    BY <2>1, <2>2, <2>3, SMTT(30) DEF Incr
  <2>7. agentEnds' = Incr(runs' > 0)
    BY <2>1, <2>3 DEF Incr
  <2>8. pc' \notin {"poll", "loop", "ended", "failing"}
    BY <2>1
  <2> QED
    BY <2>1, <2>2, <2>4, <2>5, <2>6, <2>7, <2>8, ZenonT(40) DEF TurnsInv
<1>2. CASE Starts
  <2>1. PICK prompts \in Seq(MessageIds), skip \in BOOLEAN : StartRun(prompts, skip)
    BY <1>2, StartsWith
  <2>2. /\ ~activeRun /\ pc' = "poll" /\ runs' = runs + 1 /\ openTurns' = 0 /\ agentEnds' = 0
        /\ out' = <<AgentStart, TurnStart>> \o Announcements(prompts)
        /\ UNCHANGED <<throws, firstTurn>>
    BY <2>1 DEF StartRun
  <2>3. firstTurn' /\ runs' > 0
    BY <2>2, SMTT(30) DEF ActiveInv, TurnsInv, ScalarsOK
  <2>4. Shape(out', TRUE, FALSE, FALSE)
    <3> DEFINE s == Announcements(prompts)
    <3>1. /\ s \in Seq(EventType) /\ Len(s) = Len(prompts)
          /\ \A i \in 1..Len(prompts) : s[i] = Announce(prompts[i])
      BY ListsTyped
    <3>2. \A i \in DOMAIN s : s[i].type \notin Brackets
      <4>1. DOMAIN s = 1..Len(prompts)
        BY <3>1, SMTT(30)
      <4>2. \A m : Announce(m).type \notin Brackets
        BY DEF Announce, Brackets
      <4> HIDE DEF s
      <4> QED
        BY <3>1, <4>1, <4>2
    <3> HIDE DEF s
    <3>3. <<>> \in Seq(EventType) /\ s \o <<>> = s /\ Shape(<<>>, FALSE, FALSE, FALSE)
      <4>1. Len(queued) \in Nat
        BY SMTT(30) DEF DataOK
      <4>2. Shape(<<>>, FALSE, FALSE, FALSE)
        BY <4>1, Shapes
      <4>3. s \in Seq(EventType)
        BY <3>1
      <4>4. s \o <<>> = s
        BY <4>3, ConcatEmptySeq
      <4> QED
        BY <4>2, <4>4, EmptySeq
    <3>4. Shape(s, FALSE, FALSE, FALSE)
      BY <3>1, <3>2, <3>3, ShapeBehind
    <3>5. /\ AgentStart \in EventType /\ TurnStart \in EventType
          /\ TurnStart.type = "turn_start" /\ AgentStart.type \notin Brackets
      BY EventsTyped DEF TurnStart, AgentStart, Event, Brackets
    <3>6. Shape(<<TurnStart>> \o s, TRUE, FALSE, FALSE)
      BY <3>1, <3>4, <3>5, ShapeFirst, ZenonT(40)
    <3>7. <<TurnStart>> \o s \in Seq(EventType)
      BY <3>1, <3>5, SMTT(30)
    <3>8. Shape(<<AgentStart>> \o (<<TurnStart>> \o s), TRUE, FALSE, FALSE)
      BY <3>5, <3>6, <3>7, ShapeFirst, ZenonT(40)
    <3>9. <<AgentStart, TurnStart>> \o s = <<AgentStart>> \o (<<TurnStart>> \o s)
      BY <3>1, <3>5, SMTT(30)
    <3> QED
      BY <2>2, <3>8, <3>9 DEF s
  <2>5. OpenAfter' = 1
    BY <2>2 DEF OpenAfter, InTurn, Incr
  <2>6. \A t \in Brackets : Has(out', t) => t \in Awaited(pc')
    BY <2>2, <2>4 DEF Shape, Brackets, Awaited
  <2> QED
    <3>1. /\ Ordered(out') /\ Has(out', "turn_start") /\ ~Has(out', "turn_end")
          /\ openTurns' = OpenAfter' + 0 - 1
      BY <2>2, <2>4, <2>5, SMTT(30) DEF Shape
    <3>2. openTurns' = OpenAfter' + Incr(Has(out', "turn_end")) - Incr(Has(out', "turn_start"))
      BY <3>1 DEF Incr
    <3> QED
      BY <2>2, <2>3, <2>6, <3>1, <3>2, ZenonT(40) DEF TurnsInv
<1> QED
  BY <1>1, <1>2

(* Every step keeps TurnsInv. *)
LEMMA TurnsInvStep ==
  ASSUME ActiveInv, ScalarsOK, DataOK, TurnsInv, [Next]_vars
  PROVE  TurnsInv'
<1>1. CASE Fault
  <2>1. throws' = throws + 1
    BY <1>1 DEF Fault, ListenerThrows, MessageStartThrows, HookThrows, RunThrows
  <2>2. throws \in 0..MaxDisturbed
    BY DEF ScalarsOK
  <2>3. throws' # 0
    BY <2>1, <2>2, SMTT(30)
  <2> QED
    BY <2>3 DEF TurnsInv
<1>2. ASSUME UNCHANGED <<pc, out, firstTurn, openTurns, agentEnds, runs, throws>>
      PROVE  TurnsInv'
  BY <1>2 DEF TurnsInv, OpenAfter
<1>3. CASE Quiet
  BY <1>2, <1>3, QuietFrame DEF loopVars, runVars
<1>4. ASSUME NEW k, NEW kind, Enqueued(k, kind) PROVE TurnsInv'
  BY <1>2, <1>4 DEF Enqueued, loopVars, eventVars, runVars
<1>5. CASE UNCHANGED vars
  BY <1>2, <1>5 DEF vars, loopVars, eventVars, runVars
<1> QED
  BY <1>1, <1>3, <1>4, <1>5, StepKinds, LoopTurns, EmitTurns, RunTurns, ZenonT(40)

(* As long as no listener or hook fails, turn_start and turn_end alternate and
   every run emits agent_end exactly once, whichever of the exits of runLoop it
   takes, for any number of runs, turns and queued messages. *)
THEOREM TurnsArePaired == Spec => []TurnsPaired
<1> DEFINE inv == ActiveInv /\ ScalarsOK /\ DataOK /\ TurnsInv
<1>1. Init => inv
  <2> SUFFICES ASSUME Init PROVE inv
    OBVIOUS
  <2>1. ActiveInv /\ ScalarsOK /\ DataOK
    BY TypesInit DEF Init, ActiveInv
  <2>2. /\ pc = "idle" /\ out = <<>> /\ firstTurn = TRUE /\ openTurns = 0 /\ agentEnds = 0
        /\ runs = 0
    BY DEF Init
  <2>3. Ordered(out) /\ \A t : ~Has(out, t)
    BY <2>2, SMTT(30) DEF Ordered, Has
  <2>4. TurnsInv
    BY <2>2, <2>3, SMTT(30) DEF TurnsInv, OpenAfter, InTurn, Incr
  <2> QED
    BY <2>1, <2>4
<1>2. inv /\ [Next]_vars => inv'
  BY ActiveInvStep, TypesStep, TurnsInvStep
<1>3. inv => TurnsPaired
  <2> SUFFICES ASSUME ActiveInv, ScalarsOK, DataOK, TurnsInv, throws = 0 PROVE TurnsPaired
    BY DEF TurnsPaired
  <2> DEFINE opens == Has(out, "turn_start")
             closes == Has(out, "turn_end")
             ends == Has(out, "agent_end")
  <2>1. /\ openTurns = OpenAfter + Incr(closes) - Incr(opens)
        /\ agentEnds = IF pc = "idle" THEN Incr(runs > 0)
                       ELSE IF pc = "ended" THEN 1 - Incr(ends) ELSE 0
        /\ pc = "ended" => (opens => closes) /\ (closes => ends)
    BY DEF TurnsInv
  <2>2. /\ opens => pc \in {"poll", "mode", "ended"}
        /\ closes => pc \in {"length", "ended"}
    BY DEF TurnsInv, Brackets, Awaited
  <2> HIDE DEF opens, closes, ends
  <2>3. openTurns \in {0, 1} /\ (pc \in {"idle", "ended"} => openTurns = Incr(closes) - Incr(opens))
    BY <2>1, <2>2, SMTT(30) DEF OpenAfter, InTurn, Incr
  <2>4. agentEnds <= 1 /\ (agentEnds = 1 => openTurns = 0)
    BY <2>1, <2>2, <2>3, SMTT(30) DEF Incr
  <2>5. ~activeRun => agentEnds = IF runs = 0 THEN 0 ELSE 1
    BY <2>1, SMTT(30) DEF ActiveInv, ScalarsOK, Incr
  <2> QED
    BY <2>3, <2>4, <2>5 DEF TurnsPaired
<1> QED
  BY <1>1, <1>2, <1>3, PTL DEF Spec

-----------------------------------------------------------------------------
(* How a run in explicit_finish ends. *)

(* The host or the hybrid fallback allowed an implicit end. *)
Told == turn.implicit \/ allowImplicit

(* The last message of the run is, or will be when all has been emitted, the one
   with which emitAbortedTurn or emitProtocolFailure ends it. *)
TerminalLast ==
  \/ /\ newMessages # <<>> /\ newMessages[Len(newMessages)] = Terminal
     /\ \A i \in DOMAIN out : ~out[i].push
  \/ \E i \in DOMAIN out : /\ out[i] = Message(Terminal)
                           /\ \A j \in DOMAIN out : j > i => ~out[j].push

(* On the way to an end of the run without finish_work something allows it. *)
ExplicitInv ==
  /\ pc = "protocol" /\ turn.continues => more
  /\ completionMode = "explicit_finish" =>
       /\ pc \in {"prepare", "stop", "pollSteering"} => more \/ Told
       /\ pc = "pollFollowUp" => Told
       /\ pc = "ended" => \/ turn.batch.finishOk \/ BatchEndsRun \/ Failed(turn.resp)
                          \/ Told \/ TerminalLast

(* A turn that needs no repair goes on. *)
LEMMA NoRepairGoesOn ==
  ASSUME NEW r, NEW continues \in BOOLEAN,
         detectCompletionProtocolRepair(r, continues) = "none"
  PROVE  continues
<1> SUFFICES ASSUME ~continues PROVE FALSE
  OBVIOUS
<1>1. CASE r.repetitive
  BY <1>1 DEF detectCompletionProtocolRepair
<1>2. CASE ~r.repetitive
  BY <1>2 DEF detectCompletionProtocolRepair
<1> QED
  BY <1>1, <1>2

(* emitProtocolFailure and emitAbortedTurn leave the terminal message last. *)
LEMMA EndsWithTerminal ==
  ASSUME DataOK
  PROVE  /\ ProtocolFailure(TRUE) \/ ProtocolFailure(FALSE) => pc' = "ended" /\ TerminalLast'
         /\ StopAborted => pc' = "ended" /\ TerminalLast'
<1>1. ~TurnEnd.push /\ ~AgentEnd.push /\ ~TurnStart.push /\ ~Announce(Terminal).push
  BY DEF TurnEnd, AgentEnd, TurnStart, Event, Announce
<1>2. ASSUME NEW started \in BOOLEAN, ProtocolFailure(started)
      PROVE  pc' = "ended" /\ TerminalLast'
  <2> DEFINE s == <<Protocol>> \o When(~started, <<TurnStart>>)
             r == <<Message(Terminal), TurnEnd, AgentEnd>>
             n == Len(s)
  <2>1. pc' = "ended" /\ out' = s \o r
    BY <1>2 DEF ProtocolFailure, Goto
  <2>2. DOMAIN (s \o r) = 1..(n + 3) /\ n \in Nat
        /\ (s \o r)[n + 1] = Message(Terminal) /\ (s \o r)[n + 2] = TurnEnd
        /\ (s \o r)[n + 3] = AgentEnd
    BY SMTT(30) DEF When
  <2> HIDE DEF s, r, n
  <2>3. \A j \in DOMAIN out' : j > n + 1 => ~out'[j].push
    <3> SUFFICES ASSUME NEW j \in DOMAIN out', j > n + 1 PROVE ~out'[j].push
      OBVIOUS
    <3>1. j = n + 2 \/ j = n + 3
      BY <2>1, <2>2, SMTT(30)
    <3>2. out'[n + 2] = TurnEnd /\ out'[n + 3] = AgentEnd
      BY <2>1, <2>2
    <3> QED
      BY <1>1, <3>1, <3>2
  <2>4. n + 1 \in DOMAIN out' /\ out'[n + 1] = Message(Terminal)
    BY <2>1, <2>2, SMTT(30)
  <2> QED
    BY <2>1, <2>3, <2>4 DEF TerminalLast
<1>3. ASSUME StopAborted PROVE pc' = "ended" /\ TerminalLast'
  <2>1. /\ pc' = "ended" /\ newMessages' = Append(newMessages, Terminal)
        /\ out' = <<TurnStart, Announce(Terminal), TurnEnd, AgentEnd>>
    BY <1>3 DEF StopAborted, Goto
  <2>2. newMessages' # <<>> /\ newMessages'[Len(newMessages')] = Terminal
    BY <2>1, LastAppended DEF DataOK
  <2>3. \A i \in DOMAIN out' : ~out'[i].push
    BY <1>1, <2>1, SMTT(30)
  <2> QED
    BY <2>1, <2>2, <2>3 DEF TerminalLast
<1> QED
  BY <1>2, <1>3

(* The steps of runLoop keep ExplicitInv, *)
LEMMA LoopExplicit ==
  ASSUME ScalarsOK, DataOK, ExplicitInv, LoopStep
  PROVE  ExplicitInv'
<1>1. CASE PollInitial
  BY <1>1 DEF PollInitial, At, Goto, ExplicitInv
<1>2. CASE BeginTurn
  BY <1>2 DEF BeginTurn, At, Goto, ExplicitInv
<1>3. CASE ResolveMode
  BY <1>3 DEF ResolveMode, At, Goto, ExplicitInv
<1>4. CASE StopAtMaxTurns
  <2>1. pc' = "ended" /\ TerminalLast'
    BY <1>4, EndsWithTerminal DEF StopAtMaxTurns
  <2> QED
    BY <2>1 DEF ExplicitInv
<1>5. CASE PrepareRequest
  BY <1>5 DEF PrepareRequest, At, Goto, ExplicitInv
<1>6. CASE Request
  BY <1>6 DEF Request, At, Goto, ExplicitInv
<1>7. ASSUME NEW r \in Responses, Respond(r) PROVE ExplicitInv'
  BY <1>7 DEF Respond, At, Goto, ExplicitInv
<1>8. CASE ReceiveFailure
  <2>1. /\ Failed(turn.resp) /\ pc' = "ended" /\ turn' = turn
    BY <1>8 DEF ReceiveFailure, Goto, loopVars
  <2> QED
    BY <2>1 DEF ExplicitInv
<1>9. CASE Receive
  <2>1. pc' \in {"execute", "length"}
    BY <1>9 DEF Receive, Goto
  <2> QED
    BY <2>1 DEF ExplicitInv
<1>10. CASE ExecuteTools
  BY <1>10 DEF ExecuteTools, At, Goto, ExplicitInv
<1>11. CASE RecordResults
  BY <1>11 DEF RecordResults, At, Goto, ExplicitInv
<1>12. CASE RepetitiveOutput
  <2>1. ProtocolFailure(FALSE) \/ pc' = "terminate"
    BY <1>12 DEF RepetitiveOutput, Goto
  <2> QED
    BY <2>1, EndsWithTerminal DEF ExplicitInv
<1>13. CASE ContinueAfterLength
  BY <1>13 DEF ContinueAfterLength, At, Goto, ExplicitInv
<1>14. CASE NoLengthContinuation
  BY <1>14 DEF NoLengthContinuation, At, Goto, ExplicitInv
<1>15. CASE TerminateRun
  <2>1. /\ BatchEndsRun /\ pc' = "ended" /\ turn' = turn
    BY <1>15 DEF TerminateRun, Goto, loopVars
  <2> QED
    BY <2>1 DEF ExplicitInv, BatchEndsRun
<1>16. CASE RecordWaitingTurn
  <2>1. pc' = "protocol" /\ turn' = turn /\ (turn.continues => more')
    BY <1>16 DEF RecordWaitingTurn, Goto
  <2> QED
    BY <2>1 DEF ExplicitInv
<1>17. CASE NotJudged
  <2>1. /\ pc = "protocol" /\ pc' = "prepare" /\ ~Judged
        /\ UNCHANGED <<completionMode, more, allowImplicit, turn>>
    BY <1>17 DEF NotJudged, At, Goto, protocolVars, loopVars
  <2>2. completionMode = "explicit_finish" => Enabled(completionMode)
    BY DEF Enabled
  <2>3. completionMode = "explicit_finish" => more \/ Told
    BY <2>1, <2>2 DEF Judged, ExplicitInv, Told
  <2> QED
    BY <2>1, <2>3 DEF ExplicitInv, Told
<1>18. CASE FinishWork
  <2>1. /\ turn.batch.finishOk /\ pc' = "ended" /\ turn' = turn
    BY <1>18 DEF FinishWork, Goto, loopVars
  <2> QED
    BY <2>1 DEF ExplicitInv
<1>19. CASE JudgeTurn
  <2>1. CASE ProtocolFailure(FALSE)
    BY <2>1, EndsWithTerminal DEF ExplicitInv
  <2>2. CASE pc' = "prepare" /\ more' = TRUE
    BY <2>2 DEF ExplicitInv
  <2> DEFINE repair == ProtocolRepair
             counted == CountTurn(st, turn.resp, repair, turn.batch.madeProgress,
                                  turn.batch.waiting)
             fallback == FallsBackToImplicit(counted, completionMode, repair)
  <2>3. CASE /\ repair = "none" \/ fallback
             /\ pc' = "prepare" /\ allowImplicit' = fallback /\ more' = more
    <3>1. CASE fallback
      BY <2>3, <3>1 DEF ExplicitInv, Told
    <3>2. CASE ~fallback
      <4>1. repair = "none"
        BY <2>3, <3>2
      <4>2. more
        BY <4>1, NoRepairGoesOn DEF ProtocolRepair, ScalarsOK
      <4> QED
        BY <2>3, <4>2 DEF ExplicitInv
    <3> QED
      BY <3>1, <3>2
  <2> QED
    BY <1>19, <2>1, <2>2, <2>3, ZenonT(40) DEF JudgeTurn, Goto
<1>20. CASE PrepareNextTurn
  <2>1. /\ pc \in {"prepare", "stop"} /\ pc' \in {"stop", "pollSteering"}
        /\ UNCHANGED <<completionMode, more, turn, allowImplicit>>
    BY <1>20 DEF PrepareNextTurn, At, Goto, protocolVars, loopVars
  <2> QED
    BY <2>1 DEF ExplicitInv, Told
<1>21. CASE StopAborted
  <2>1. pc' = "ended" /\ TerminalLast'
    BY <1>21, EndsWithTerminal
  <2> QED
    BY <2>1 DEF ExplicitInv
<1>22. CASE ShouldStopAfterTurn
  <2>1. /\ CanStopImplicitly /\ pc' = "ended"
        /\ UNCHANGED <<completionMode, turn, allowImplicit>>
    BY <1>22 DEF ShouldStopAfterTurn, Goto, protocolVars, loopVars
  <2>2. completionMode = "explicit_finish" => Told
    BY <2>1 DEF CanStopImplicitly, Enabled, Told
  <2> QED
    BY <2>1, <2>2 DEF ExplicitInv, Told
<1>23. CASE DoNotStop
  <2>1. /\ pc \in {"prepare", "stop"} /\ pc' \in {"stop", "pollSteering"}
        /\ UNCHANGED <<completionMode, more, turn, allowImplicit>>
    BY <1>23 DEF DoNotStop, At, Goto, protocolVars, loopVars
  <2> QED
    BY <2>1 DEF ExplicitInv, Told
<1>24. CASE PollSteering
  <2>1. /\ pc = "pollSteering" /\ UNCHANGED <<completionMode, more, turn, allowImplicit>>
        /\ pc' = "loop" \/ (pc' = "pollFollowUp" /\ ~more)
    BY <1>24 DEF PollSteering, At, Goto, protocolVars
  <2> QED
    BY <2>1 DEF ExplicitInv, Told
<1>25. CASE PollFollowUp
  <2>1. /\ pc = "pollFollowUp" /\ UNCHANGED <<completionMode, turn, allowImplicit>>
        /\ pc' \in {"loop", "ended"}
    BY <1>25 DEF PollFollowUp, At, Goto, protocolVars
  <2> QED
    BY <2>1 DEF ExplicitInv, Told
<1> QED
  BY <1>1, <1>2, <1>3, <1>4, <1>5, <1>6, <1>7, <1>8, <1>9, <1>10, <1>11, <1>12,
     <1>13, <1>14, <1>15, <1>16, <1>17, <1>18, <1>19, <1>20, <1>21, <1>22,
     <1>23, <1>24, <1>25, ZenonT(40)
  DEF LoopStep

(* an emit keeps it, *)
LEMMA EmitExplicit ==
  ASSUME DataOK, ExplicitInv, EmitNext
  PROVE  ExplicitInv'
<1>1. /\ out # <<>> /\ out' = Tail(out)
      /\ newMessages' = IF Head(out).push THEN Append(newMessages, Head(out).msg)
                        ELSE newMessages
      /\ UNCHANGED <<pc, turn, more, completionMode, allowImplicit>>
  BY DEF EmitNext, protocolVars, loopVars
<1>2. /\ Len(out) \in Nat /\ DOMAIN out = 1..Len(out) /\ Head(out) = out[1]
      /\ 1 \in DOMAIN out /\ DOMAIN out' = 1..(Len(out) - 1)
      /\ \A i \in 1..(Len(out) - 1) : out'[i] = out[i + 1]
  BY <1>1, HeadTail, SMTT(30) DEF DataOK
<1>3. ASSUME TerminalLast PROVE TerminalLast'
  <2>1. CASE /\ newMessages # <<>> /\ newMessages[Len(newMessages)] = Terminal
             /\ \A i \in DOMAIN out : ~out[i].push
    <3>1. newMessages' = newMessages
      BY <1>1, <1>2, <2>1, ZenonT(40)
    <3>2. \A i \in DOMAIN out' : ~out'[i].push
      BY <1>2, <2>1, SMTT(30)
    <3> QED
      BY <2>1, <3>1, <3>2 DEF TerminalLast
  <2>2. ASSUME NEW i \in DOMAIN out, out[i] = Message(Terminal),
               \A j \in DOMAIN out : j > i => ~out[j].push
        PROVE  TerminalLast'
    <3>0. Len(out) \in Nat /\ DOMAIN out = 1..Len(out) /\ DOMAIN out' = 1..(Len(out) - 1)
      BY <1>2
    <3>1. CASE i = 1
      <4>1. Head(out).push /\ Head(out).msg = Terminal
        <5>1. Message(Terminal).push /\ Message(Terminal).msg = Terminal
          BY DEF Message
        <5>2. Head(out) = Message(Terminal)
          BY <1>2, <2>2, <3>1
        <5> QED
          BY <5>1, <5>2
      <4>2. newMessages' # <<>> /\ newMessages'[Len(newMessages')] = Terminal
        BY <1>1, <4>1, LastAppended, ZenonT(40) DEF DataOK
      <4>3. ASSUME NEW j \in DOMAIN out' PROVE ~out'[j].push
        <5>1. j \in 1..(Len(out) - 1) /\ j + 1 \in 1..Len(out) /\ j + 1 > i
          BY <3>0, <3>1, SMTT(30)
        <5> QED
          BY <1>2, <2>2, <5>1
      <4> QED
        BY <4>2, <4>3 DEF TerminalLast
    <3>2. CASE i # 1
      <4>1. i - 1 \in DOMAIN out' /\ out'[i - 1] = Message(Terminal)
        <5>1. i \in 1..Len(out) /\ i - 1 \in 1..(Len(out) - 1) /\ (i - 1) + 1 = i
          BY <3>0, <3>2, SMTT(30)
        <5>2. out'[i - 1] = out[(i - 1) + 1]
          BY <1>2, <5>1, ZenonT(40)
        <5> QED
          BY <1>2, <2>2, <5>1, <5>2
      <4>2. ASSUME NEW j \in DOMAIN out', j > i - 1 PROVE ~out'[j].push
        <5>1. j \in 1..(Len(out) - 1) /\ j + 1 \in 1..Len(out) /\ j + 1 > i
          BY <3>0, <4>2, SMTT(30)
        <5> QED
          BY <1>2, <2>2, <5>1
      <4> QED
        BY <4>1, <4>2 DEF TerminalLast
    <3> QED
      BY <3>1, <3>2
  <2> QED
    BY <1>3, <2>1, <2>2 DEF TerminalLast
<1> QED
  BY <1>1, <1>3 DEF ExplicitInv, Told, BatchEndsRun

(* and so does every other step. *)
LEMMA ExplicitInvStep ==
  ASSUME ScalarsOK, DataOK, ExplicitInv, [Next]_vars
  PROVE  ExplicitInv'
<1>1. CASE Settle \/ Fault
  <2>1. pc' \in {"idle", "failing"}
    BY <1>1 DEF Settle, Fault, ListenerThrows, MessageStartThrows, HookThrows, RunThrows,
        FinishRun, HandleRunFailure
  <2> QED
    BY <2>1 DEF ExplicitInv
<1>2. CASE Starts
  <2>1. pc' = "poll"
    BY <1>2
    DEF Starts, AgentPrompt, ContinueSteering, ContinueFollowUp, ContinueTranscript, StartRun
  <2> QED
    BY <2>1 DEF ExplicitInv
<1>3. ASSUME UNCHANGED <<pc, out, turn, more, completionMode, allowImplicit, newMessages>>
      PROVE  ExplicitInv'
  BY <1>3 DEF ExplicitInv, Told, BatchEndsRun, TerminalLast
<1>4. CASE Quiet
  BY <1>3, <1>4, QuietFrame DEF loopVars, protocolVars
<1>5. ASSUME NEW k, NEW kind, Enqueued(k, kind) PROVE ExplicitInv'
  BY <1>3, <1>5 DEF Enqueued, loopVars, protocolVars, eventVars
<1>6. CASE UNCHANGED vars
  BY <1>3, <1>6 DEF vars, loopVars, protocolVars, eventVars
<1> QED
  BY <1>1, <1>2, <1>4, <1>5, <1>6, StepKinds, LoopExplicit, EmitExplicit, ZenonT(40)

(* A run in explicit_finish ends only with finish_work, a batch of terminating
   tools, a failed response, a protocol failure, an abort, an answer the host
   accepted or an earlier fallback to implicit completion, whatever the
   responses, the limits and the changes of mode. *)
THEOREM ExplicitRunsFinish == Spec => []ExplicitNeedsFinish
<1> DEFINE inv == ScalarsOK /\ DataOK /\ ExplicitInv
<1>1. Init => inv
  BY TypesInit DEF Init, ExplicitInv
<1>2. inv /\ [Next]_vars => inv'
  BY TypesStep, ExplicitInvStep
<1>3. inv => ExplicitNeedsFinish
  <2> SUFFICES ASSUME DataOK, ExplicitInv, pc = "ended", out = <<AgentEnd>>,
                      completionMode = "explicit_finish"
               PROVE  \/ turn.batch.finishOk \/ BatchEndsRun
                      \/ Failed(turn.resp) \/ Last(newMessages) = Terminal
                      \/ turn.implicit \/ allowImplicit
    BY DEF ExplicitNeedsFinish
  <2>1. AgentEnd # Message(Terminal)
    BY DEF AgentEnd, Event, Message
  <2>2. TerminalLast => newMessages[Len(newMessages)] = Terminal
    BY <2>1, SMTT(30) DEF TerminalLast
  <2> QED
    BY <2>2 DEF ExplicitInv, Told, Last
<1> QED
  BY <1>1, <1>2, <1>3, PTL DEF Spec

-----------------------------------------------------------------------------
(* The report of a run: runLoop keeps its own list of new messages, processEvents
   records what is emitted. *)

(* Two sequences with the same elements. *)
LEMMA SameSeq ==
  ASSUME NEW S, NEW s \in Seq(S), NEW t \in Seq(S),
         Len(s) = Len(t), \A i \in 1..Len(s) : s[i] = t[i]
  PROVE  s = t
BY SMTT(30)

(* A part of a sequence. *)
LEMMA SubSeqParts ==
  ASSUME NEW S, NEW s \in Seq(S), NEW m \in 1..(Len(s) + 1), NEW n \in 0..Len(s)
  PROVE  /\ SubSeq(s, m, n) \in Seq(S)
         /\ Len(SubSeq(s, m, n)) = IF m <= n THEN n - m + 1 ELSE 0
         /\ \A i \in 1..(n - m + 1) : SubSeq(s, m, n)[i] = s[m + i - 1]
<1>1. SubSeq(s, m, n) \in Seq(S)
  BY SMTT(30)
<1>2. Len(SubSeq(s, m, n)) = IF m <= n THEN n - m + 1 ELSE 0
  BY SMTT(30)
<1>3. \A i \in 1..(n - m + 1) : SubSeq(s, m, n)[i] = s[m + i - 1]
  <2>1. CASE m <= n
    BY <2>1, SMTT(30)
  <2>2. CASE ~(m <= n)
    BY <2>2, SMTT(30)
  <2> QED
    BY <2>1, <2>2
<1> QED
  BY <1>1, <1>2, <1>3

(* The report.  Recorded: how many messages the run has added to the transcript;
   Agree(k): the first k of them are the first k of the report. *)
Recorded == Len(messages) - base
Agree(k) == \A i \in 1..k : messages[base + i] = newMessages[i]
Level == Recorded = Len(newMessages) /\ Agree(Len(newMessages))

(* Every message still to be emitted will be pushed to the report. *)
Pushes(s) == \A i \in DOMAIN s : s[i].type = "message" => s[i].push

(* The transcript is ahead by a message that the loop has still to push. *)
AheadBy(m) == /\ out = <<>> /\ Recorded = Len(newMessages) + 1 /\ Agree(Len(newMessages))
              /\ messages[Len(messages)] = m

(* The report has messages at its end that are still to be announced. *)
BehindBy(k) ==
  /\ k \in 0..Len(out) /\ Len(newMessages) = Recorded + k /\ Agree(Recorded)
  /\ \A i \in 1..Len(out) :
       IF i <= Len(out) - k THEN out[i].type # "message"
       ELSE out[i] = Announce(newMessages[Len(newMessages) - Len(out) + i])

Behind == \E k \in Nat : BehindBy(k)

(* emitAbortedTurn has pushed its message before it emits it. *)
Aborting ==
  /\ \/ out = <<TurnStart, Announce(Terminal), TurnEnd, AgentEnd>>
     \/ out = <<Announce(Terminal), TurnEnd, AgentEnd>>
  /\ Len(newMessages) = Recorded + 1 /\ Agree(Recorded)
  /\ newMessages[Len(newMessages)] = Terminal

(* Where the report and the transcript stand, at each place of the loop. *)
ReportInv ==
  throws = 0 /\ resets = 0 /\ pc \notin {"idle", "failing"} =>
    /\ base <= Len(messages)
    /\ pc = "poll" => Behind
    /\ pc = "received" => (out = <<Announce(Assistant)>> /\ Level) \/ AheadBy(Assistant)
    /\ pc = "executed" => (out = <<Announce(ToolResult)>> /\ Level) \/ AheadBy(ToolResult)
    /\ pc = "ended" => (Pushes(out) /\ Level) \/ Aborting
    /\ pc \notin {"poll", "received", "executed", "ended"} => Pushes(out) /\ Level

(* The steps of runLoop by what they do to the report: push what the transcript
   already has, *)
Records(m) == newMessages' = Append(newMessages, m)
(* announce a message that will be pushed later, *)
Announces(p, m) == /\ newMessages' = newMessages /\ out' = <<Announce(m)>> /\ pc' = p
                   /\ pc \notin {"received", "executed", "ended", "idle", "failing"}
(* or leave the pushing to the emits. *)
Lasting == pc' \notin {"poll", "received", "executed", "idle", "failing"} /\ Pushes(out')

(* There are no others. *)
LEMMA LoopReports ==
  ASSUME DataOK, LoopStep
  PROVE  \/ Announces("received", Assistant) \/ Announces("executed", ToolResult)
         \/ pc = "received" /\ Records(Assistant) /\ Lasting
         \/ pc = "executed" /\ Records(ToolResult) /\ Lasting
         \/ /\ pc = "stop" /\ pc' = "ended" /\ Records(Terminal)
            /\ out' = <<TurnStart, Announce(Terminal), TurnEnd, AgentEnd>>
         \/ /\ pc \notin {"received", "executed", "ended", "idle", "failing"}
            /\ newMessages' = newMessages /\ Lasting
<1> DEFINE goal ==
         \/ Announces("received", Assistant) \/ Announces("executed", ToolResult)
         \/ pc = "received" /\ Records(Assistant) /\ Lasting
         \/ pc = "executed" /\ Records(ToolResult) /\ Lasting
         \/ /\ pc = "stop" /\ pc' = "ended" /\ Records(Terminal)
            /\ out' = <<TurnStart, Announce(Terminal), TurnEnd, AgentEnd>>
         \/ /\ pc \notin {"received", "executed", "ended", "idle", "failing"}
            /\ newMessages' = newMessages /\ Lasting
<1> SUFFICES goal
  OBVIOUS
<1>30. /\ \A m : Message(m).push
       /\ TurnStart.type # "message" /\ TurnEnd.type # "message" /\ AgentEnd.type # "message"
       /\ Protocol.type # "message" /\ RequestStart.type # "message"
  BY DEF Message, TurnStart, TurnEnd, AgentEnd, Protocol, RequestStart, Event
<1>34. /\ Protocol \in EventType /\ TurnStart \in EventType /\ TurnEnd \in EventType
       /\ AgentEnd \in EventType /\ Message(Terminal) \in EventType
  BY MessageNumbers, EventsTyped, SMTT(30) DEF DataOK
<1>31. /\ Pushes(<<>>) /\ Pushes(<<TurnEnd>>) /\ Pushes(<<AgentEnd>>)
       /\ Pushes(<<TurnEnd, AgentEnd>>) /\ Pushes(<<RequestStart>>)
       /\ Pushes(<<Message(Internal)>>) /\ Pushes(<<Protocol, Message(Internal)>>)
       /\ Pushes(<<Protocol, AgentEnd>>) /\ Pushes(<<Protocol>>)
  BY <1>30, SMTT(30) DEF Pushes
<1>32. ASSUME NEW c
       PROVE  Pushes(When(c, <<Protocol>>)) /\ Pushes(When(c, <<Protocol, Message(Internal)>>))
  BY <1>31 DEF When
<1>33. ASSUME NEW started \in BOOLEAN, ProtocolFailure(started) PROVE Lasting
  <2>1. pc' = "ended"
        /\ out' = <<Protocol>> \o When(~started, <<TurnStart>>)
                    \o <<Message(Terminal), TurnEnd, AgentEnd>>
    BY <1>33 DEF ProtocolFailure, Goto
  <2> DEFINE r == <<Message(Terminal), TurnEnd, AgentEnd>>
  <2>2. /\ <<Protocol>> = <<Protocol>> \o <<>>
        /\ <<Protocol, TurnStart>> = <<Protocol>> \o <<TurnStart>>
    BY <1>34, SMTT(30)
  <2>3. out' = <<Protocol>> \o r \/ out' = <<Protocol, TurnStart>> \o r
    BY <2>1, <2>2, ZenonT(40) DEF When
  <2>4. /\ <<Protocol, Message(Terminal), TurnEnd, AgentEnd>> = <<Protocol>> \o r
        /\ <<Protocol, TurnStart, Message(Terminal), TurnEnd, AgentEnd>>
             = <<Protocol, TurnStart>> \o r
    BY <1>34, SMTT(30)
  <2>5. /\ Pushes(<<Protocol, Message(Terminal), TurnEnd, AgentEnd>>)
        /\ Pushes(<<Protocol, TurnStart, Message(Terminal), TurnEnd, AgentEnd>>)
    BY <1>30, SMTT(30) DEF Pushes
  <2> HIDE DEF r
  <2> QED
    BY <2>1, <2>3, <2>4, <2>5, ZenonT(40) DEF Lasting
<1>1. CASE PollInitial
  <2>1. /\ pc = "poll" /\ pc' = "loop" /\ newMessages' = newMessages
        /\ \E c : out' = When(c, <<Protocol>>)
    BY <1>1 DEF PollInitial, At, Goto
  <2> QED
    BY <2>1, <1>31, <1>32 DEF Lasting
<1>2. CASE BeginTurn
  <2> DEFINE s == MessageEvents(pending)
             r == When(~firstTurn, <<TurnStart>>)
  <2>1. /\ pc = "loop" /\ pc' = "mode" /\ newMessages' = newMessages /\ out' = r \o s
    BY <1>2 DEF BeginTurn, At, Goto
  <2>2. pending \in Seq(MessageIds)
    BY MessageNumbers, SeqMonotonic, SMTT(30) DEF DataOK
  <2>3. /\ s \in Seq(EventType) /\ Len(s) = Len(pending)
        /\ \A i \in 1..Len(s) : s[i] = Message(pending[i])
    BY <2>2, ListsTyped
  <2>4. r \in Seq(EventType) /\ \A i \in 1..Len(r) : r[i].type # "message"
    <3>1. TurnStart \in EventType
      BY EventsTyped
    <3>2. r = <<>> \/ r = <<TurnStart>>
      BY DEF When
    <3> HIDE DEF r
    <3>3. CASE r = <<>>
      BY <3>3, SMTT(30)
    <3>4. CASE r = <<TurnStart>>
      BY <1>30, <3>1, <3>4, SMTT(30)
    <3> QED
      BY <3>2, <3>3, <3>4
  <2> HIDE DEF r, s
  <2>5. Pushes(out')
    <3>1. /\ DOMAIN (r \o s) = 1..(Len(r) + Len(s)) /\ Len(r) \in Nat /\ Len(s) \in Nat
          /\ \A i \in 1..(Len(r) + Len(s)) :
               (r \o s)[i] = IF i <= Len(r) THEN r[i] ELSE s[i - Len(r)]
      <4>1. r \in Seq(EventType) /\ s \in Seq(EventType)
        BY <2>3, <2>4
      <4> QED
        BY <4>1, ConcatParts, SMTT(30)
    <3> SUFFICES ASSUME NEW i \in DOMAIN (r \o s), (r \o s)[i].type = "message"
                 PROVE  (r \o s)[i].push
      BY <2>1 DEF Pushes
    <3>2. i - Len(r) \in 1..Len(s) /\ (r \o s)[i] = s[i - Len(r)]
      BY <2>4, <3>1, SMTT(30)
    <3> QED
      BY <1>30, <2>3, <3>2, ZenonT(40)
  <2> QED
    BY <2>1, <2>5 DEF Lasting
<1>3. CASE ResolveMode
  <2>1. /\ pc = "mode" /\ pc' = "limit" /\ newMessages' = newMessages
        /\ \E c : out' = When(c, <<Protocol>>)
    BY <1>3 DEF ResolveMode, At, Goto
  <2> QED
    BY <2>1, <1>31, <1>32 DEF Lasting
<1>4. CASE StopAtMaxTurns
  <2>1. pc = "limit" /\ newMessages' = newMessages /\ ProtocolFailure(TRUE)
    BY <1>4 DEF StopAtMaxTurns, At
  <2> QED
    BY <1>33, <2>1
<1>5. CASE PrepareRequest
  <2>1. /\ pc = "limit" /\ pc' = "request" /\ newMessages' = newMessages
        /\ out' = <<RequestStart>>
    BY <1>5 DEF PrepareRequest, At, Goto
  <2> QED
    BY <2>1, <1>31, <1>32, ZenonT(40) DEF Lasting
<1>6. CASE Request
  <2>1. /\ pc = "request" /\ pc' = "stream" /\ newMessages' = newMessages
        /\ out' = <<>>
    BY <1>6 DEF Request, At, Goto
  <2> QED
    BY <2>1, <1>31, <1>32 DEF Lasting
<1>7. ASSUME NEW r \in Responses, Respond(r) PROVE goal
  <2>1. /\ pc = "stream" /\ pc' = "received" /\ newMessages' = newMessages
        /\ out' = <<Announce(Assistant)>>
    BY <1>7 DEF Respond, At, Goto
  <2> QED
    BY <2>1 DEF Announces
<1>8. CASE ReceiveFailure
  <2>1. /\ pc = "received" /\ pc' = "ended" /\ newMessages' = Append(newMessages, Assistant)
        /\ out' = <<TurnEnd, AgentEnd>>
    BY <1>8 DEF ReceiveFailure, At, Goto
  <2> QED
    BY <2>1, <1>31 DEF Lasting, Records
<1>9. CASE Receive
  <2>1. /\ pc = "received" /\ pc' \in {"execute", "length"}
        /\ newMessages' = Append(newMessages, Assistant)
        /\ out' = <<>> \/ out' = <<TurnEnd>>
    BY <1>9 DEF Receive, At, Goto
  <2> QED
    BY <2>1, <1>31 DEF Lasting, Records
<1>10. CASE ExecuteTools
  <2>1. /\ pc = "execute" /\ pc' = "executed" /\ newMessages' = newMessages
        /\ out' = <<Announce(ToolResult)>>
    BY <1>10 DEF ExecuteTools, At, Goto
  <2> QED
    BY <2>1 DEF Announces
<1>11. CASE RecordResults
  <2>1. /\ pc = "executed" /\ pc' = "length" /\ newMessages' = Append(newMessages, ToolResult)
        /\ out' = <<TurnEnd>>
    BY <1>11 DEF RecordResults, At, Goto
  <2> QED
    BY <2>1, <1>31 DEF Lasting, Records
<1>12. CASE RepetitiveOutput
  <2>1. /\ pc = "length" /\ newMessages' = newMessages
        /\ \/ ProtocolFailure(FALSE)
           \/ pc' = "terminate" /\ out' = <<Protocol, Message(Internal)>>
    BY <1>12 DEF RepetitiveOutput, At, Goto
  <2> QED
    BY <1>31, <1>33, <2>1 DEF Lasting
<1>13. CASE ContinueAfterLength
  <2>1. /\ pc = "length" /\ pc' = "terminate" /\ newMessages' = newMessages
        /\ out' = <<Message(Internal)>>
    BY <1>13 DEF ContinueAfterLength, At, Goto
  <2> QED
    BY <2>1, <1>31, <1>32 DEF Lasting
<1>14. CASE NoLengthContinuation
  <2>1. /\ pc = "length" /\ pc' = "terminate" /\ newMessages' = newMessages
        /\ out' = <<>>
    BY <1>14 DEF NoLengthContinuation, At, Goto
  <2> QED
    BY <2>1, <1>31, <1>32 DEF Lasting
<1>15. CASE TerminateRun
  <2>1. /\ pc = "terminate" /\ pc' = "ended" /\ newMessages' = newMessages
        /\ \E c : out' = When(c, <<Protocol>>) \o <<AgentEnd>>
    BY <1>15 DEF TerminateRun, At, Goto
  <2>2. out' = <<>> \o <<AgentEnd>> \/ out' = <<Protocol>> \o <<AgentEnd>>
    BY <2>1 DEF When
  <2>3. <<>> \o <<AgentEnd>> = <<AgentEnd>>
    <3>1. <<AgentEnd>> \in Seq(EventType)
      BY <1>34, SMTT(30)
    <3> QED
      BY <3>1, ConcatEmptySeq
  <2>4. <<Protocol, AgentEnd>> = <<Protocol>> \o <<AgentEnd>>
    BY <1>34, SMTT(30)
  <2> QED
    BY <2>1, <2>2, <2>3, <2>4, <1>31, ZenonT(40) DEF Lasting
<1>16. CASE RecordWaitingTurn
  <2>1. /\ pc = "terminate" /\ pc' = "protocol" /\ newMessages' = newMessages
        /\ \E c : out' = When(c, <<Protocol, Message(Internal)>>)
    BY <1>16 DEF RecordWaitingTurn, At, Goto
  <2> QED
    BY <2>1, <1>31, <1>32 DEF Lasting
<1>17. CASE NotJudged
  <2>1. /\ pc = "protocol" /\ pc' = "prepare" /\ newMessages' = newMessages
        /\ out' = <<>>
    BY <1>17 DEF NotJudged, At, Goto
  <2> QED
    BY <2>1, <1>31, <1>32, ZenonT(40) DEF Lasting
<1>18. CASE FinishWork
  <2>1. /\ pc = "protocol" /\ pc' = "ended" /\ newMessages' = newMessages
        /\ out' = <<Protocol, AgentEnd>>
    BY <1>18 DEF FinishWork, At, Goto
  <2> QED
    BY <2>1, <1>31, <1>32, ZenonT(40) DEF Lasting
<1>19. CASE JudgeTurn
  <2>1. /\ pc = "protocol" /\ newMessages' = newMessages
        /\ \/ ProtocolFailure(FALSE)
           \/ pc' = "prepare" /\ out' = <<>>
           \/ pc' = "prepare" /\ out' = <<Protocol, Message(Internal)>>
    BY <1>19 DEF JudgeTurn, At, Goto
  <2> QED
    BY <1>31, <1>33, <2>1 DEF Lasting
<1>20. CASE PrepareNextTurn
  <2>1. PICK k \in Appends : /\ pc = "prepare" /\ pc' = "stop" /\ newMessages' = newMessages
                             /\ out' = [i \in 1..k |-> Message(Internal)]
    BY <1>20 DEF PrepareNextTurn, At, Goto
  <2>2. Pushes(out')
    BY <1>30, <2>1 DEF Pushes
  <2> QED
    BY <2>1, <2>2 DEF Lasting
<1>21. CASE StopAborted
  BY <1>21 DEF StopAborted, At, Goto, Records
<1>22. CASE ShouldStopAfterTurn
  <2>1. /\ pc = "stop" /\ pc' = "ended" /\ newMessages' = newMessages
        /\ out' = <<AgentEnd>>
    BY <1>22 DEF ShouldStopAfterTurn, At, Goto
  <2> QED
    BY <2>1, <1>31, <1>32, ZenonT(40) DEF Lasting
<1>23. CASE DoNotStop
  <2>1. /\ pc = "stop" /\ pc' = "pollSteering" /\ newMessages' = newMessages
        /\ out' = <<>>
    BY <1>23 DEF DoNotStop, At, Goto
  <2> QED
    BY <2>1, <1>31, <1>32, ZenonT(40) DEF Lasting
<1>24. CASE PollSteering
  <2>1. /\ pc = "pollSteering" /\ pc' \in {"loop", "pollFollowUp"} /\ newMessages' = newMessages
        /\ out' = <<>>
    BY <1>24 DEF PollSteering, At, Goto
  <2> QED
    BY <2>1, <1>31, <1>32 DEF Lasting
<1>25. CASE PollFollowUp
  <2>1. /\ pc = "pollFollowUp" /\ pc' \in {"loop", "ended"} /\ newMessages' = newMessages
        /\ out' = <<>> \/ out' = <<AgentEnd>>
    BY <1>25 DEF PollFollowUp, At, Goto
  <2> QED
    BY <2>1, <1>31, <1>32 DEF Lasting
<1> QED
  BY <1>1, <1>2, <1>3, <1>4, <1>5, <1>6, <1>7, <1>8, <1>9, <1>10, <1>11, <1>12,
     <1>13, <1>14, <1>15, <1>16, <1>17, <1>18, <1>19, <1>20, <1>21, <1>22,
     <1>23, <1>24, <1>25, ZenonT(40)
  DEF LoopStep

(* Between two emits the report is level with the transcript, but where a message
   has still to be pushed. *)
LEMMA LevelAt ==
  ASSUME DataOK, ScalarsOK, ReportInv, throws = 0, resets = 0, out = <<>>,
         pc \notin {"idle", "failing", "ended"}
  PROVE  /\ base <= Len(messages)
         /\ pc \notin {"received", "executed"} => Level
         /\ pc = "received" => AheadBy(Assistant)
         /\ pc = "executed" => AheadBy(ToolResult)
<1>1. <<>> # <<Announce(Assistant)>> /\ <<>> # <<Announce(ToolResult)>>
  OBVIOUS
<1>2. Len(newMessages) \in Nat /\ Len(messages) \in Nat /\ base \in Nat
  BY SMTT(30) DEF DataOK, ScalarsOK
<1>3. Behind => Level
  <2> SUFFICES ASSUME NEW k \in Nat, BehindBy(k) PROVE Level
    BY DEF Behind
  <2>1. Len(out) = 0
    OBVIOUS
  <2>2. k = 0 /\ Len(newMessages) = Recorded + k /\ Agree(Recorded)
    BY <2>1, SMTT(30) DEF BehindBy
  <2> QED
    BY <1>2, <2>2, SMTT(30) DEF Level, Recorded
<1> QED
  BY <1>1, <1>3 DEF ReportInv

(* Pushing the message that the transcript is ahead by levels the report. *)
LEMMA RecordLevels ==
  ASSUME DataOK, ScalarsOK, NEW m \in MessageIds, AheadBy(m), Records(m),
         base <= Len(messages), UNCHANGED <<messages, base>>
  PROVE  Level'
<1> DEFINE n == Len(newMessages)
<1>1. /\ n \in Nat /\ Len(messages) \in Nat /\ base \in Nat
      /\ Len(newMessages') = n + 1 /\ newMessages'[n + 1] = m
      /\ \A i \in 1..n : newMessages'[i] = newMessages[i]
  BY AppendParts, SMTT(30) DEF DataOK, ScalarsOK, Records
<1>2. /\ Len(messages) = base + n + 1 /\ messages[base + (n + 1)] = m
      /\ \A i \in 1..n : messages[base + i] = newMessages[i]
  BY <1>1, SMTT(30) DEF AheadBy, Recorded, Agree
<1> HIDE DEF n
<1>3. \A i \in 1..(n + 1) : messages'[base' + i] = newMessages'[i]
  BY <1>1, <1>2, SMTT(30)
<1> QED
  BY <1>1, <1>2, <1>3, SMTT(30) DEF Level, Recorded, Agree

(* The steps of runLoop keep ReportInv, *)
LEMMA LoopReport ==
  ASSUME DataOK, ScalarsOK, ReportInv, LoopStep
  PROVE  ReportInv'
<1>1. out = <<>> /\ UNCHANGED <<throws, resets, messages, base>>
  BY LoopFrame DEF inputVars, runVars
<1> SUFFICES ASSUME throws = 0, resets = 0 PROVE ReportInv'
  BY <1>1 DEF ReportInv
<1>2. Assistant \in MessageIds /\ ToolResult \in MessageIds /\ Terminal \in MessageIds
  BY MessageNumbers, SMTT(30) DEF DataOK
<1>3. ASSUME NEW p, NEW m, Announces(p, m),
             <<p, m>> \in {<<"received", Assistant>>, <<"executed", ToolResult>>}
      PROVE  ReportInv'
  <2>1. base <= Len(messages) /\ Level
    BY <1>1, <1>3, LevelAt DEF Announces
  <2>2. base' <= Len(messages') /\ Level' /\ out' = <<Announce(m)>> /\ pc' = p
    BY <1>1, <1>3, <2>1 DEF Announces, Level, Recorded, Agree
  <2> QED
    BY <1>3, <2>2 DEF ReportInv
<1>4. ASSUME Lasting, Level', base <= Len(messages) PROVE ReportInv'
  BY <1>1, <1>4 DEF Lasting, ReportInv
<1>5. ASSUME NEW m \in MessageIds, AheadBy(m), Records(m), Lasting, base <= Len(messages)
      PROVE  ReportInv'
  BY <1>1, <1>4, <1>5, RecordLevels, ZenonT(40)
<1>6. CASE \/ pc = "received" /\ Records(Assistant) /\ Lasting
           \/ pc = "executed" /\ Records(ToolResult) /\ Lasting
  BY <1>1, <1>2, <1>5, <1>6, LevelAt, ZenonT(40)
<1>7. CASE /\ pc \notin {"received", "executed", "ended", "idle", "failing"}
           /\ newMessages' = newMessages /\ Lasting
  <2>1. base <= Len(messages) /\ Level
    BY <1>1, <1>7, LevelAt, ZenonT(40)
  <2>2. Level'
    BY <1>1, <1>7, <2>1, ZenonT(40) DEF Level, Recorded, Agree
  <2> QED
    BY <1>4, <1>7, <2>1, <2>2, ZenonT(40)
<1>8. CASE /\ pc = "stop" /\ pc' = "ended" /\ Records(Terminal)
           /\ out' = <<TurnStart, Announce(Terminal), TurnEnd, AgentEnd>>
  <2> DEFINE n == Len(newMessages)
  <2>1. base <= Len(messages) /\ Level
    BY <1>1, <1>8, LevelAt, ZenonT(40)
  <2>2. /\ n \in Nat /\ Len(messages) \in Nat /\ base \in Nat
        /\ Len(newMessages') = n + 1 /\ newMessages'[n + 1] = Terminal
        /\ \A i \in 1..n : newMessages'[i] = newMessages[i]
    BY <1>2, <1>8, AppendParts, SMTT(30) DEF DataOK, ScalarsOK, Records
  <2>3. Len(messages) = base + n /\ \A i \in 1..n : messages[base + i] = newMessages[i]
    BY <2>1, <2>2, SMTT(30) DEF Level, Recorded, Agree
  <2> HIDE DEF n
  <2>4. /\ Recorded' = n /\ Len(newMessages') = Recorded' + 1
        /\ newMessages'[Len(newMessages')] = Terminal
    BY <1>1, <2>2, <2>3, SMTT(30) DEF Recorded
  <2>5. \A i \in 1..n : messages'[base' + i] = newMessages'[i]
    BY <1>1, <2>2, <2>3
  <2>6. Aborting'
    BY <1>8, <2>4, <2>5 DEF Aborting, Agree
  <2> QED
    BY <1>1, <1>8, <2>1, <2>6, ZenonT(40) DEF ReportInv
<1> QED
  BY <1>3, <1>6, <1>7, <1>8, LoopReports, ZenonT(40)

(* A message that is both recorded and pushed leaves the report level. *)
LEMMA PushLevel ==
  ASSUME NEW m \in MessageIds, DataOK, ScalarsOK, Level, base <= Len(messages), base' = base,
         messages' = Append(messages, m), newMessages' = Append(newMessages, m)
  PROVE  Level' /\ base' <= Len(messages')
<1> DEFINE n == Len(newMessages)
           l == Len(messages)
<1>1. /\ n \in Nat /\ l \in Nat /\ base \in Nat
      /\ Len(newMessages') = n + 1 /\ newMessages'[n + 1] = m
      /\ \A i \in 1..n : newMessages'[i] = newMessages[i]
      /\ Len(messages') = l + 1 /\ messages'[l + 1] = m
      /\ \A i \in 1..l : messages'[i] = messages[i]
  BY AppendParts, SMTT(30) DEF DataOK, ScalarsOK
<1>2. l = base + n /\ \A i \in 1..n : messages[base + i] = newMessages[i]
  BY <1>1, SMTT(30) DEF Level, Recorded, Agree
<1> HIDE DEF n, l
<1>3. \A i \in 1..(n + 1) : messages'[base + i] = newMessages'[i]
  <2> SUFFICES ASSUME NEW i \in 1..(n + 1) PROVE messages'[base + i] = newMessages'[i]
    OBVIOUS
  <2>1. CASE i = n + 1
    BY <1>1, <1>2, <2>1, SMTT(30)
  <2>2. CASE i \in 1..n
    <3>1. base + i \in 1..l
      BY <1>1, <1>2, <2>2, SMTT(30)
    <3> QED
      BY <1>1, <1>2, <2>2, <3>1, ZenonT(40)
  <2>3. n \in Nat
    BY <1>1
  <2>4. i = n + 1 \/ i \in 1..n
    BY <2>3, SMTT(30)
  <2> QED
    BY <2>1, <2>2, <2>4, ZenonT(40)
<1>4. /\ Len(newMessages') = n + 1 /\ Recorded' = n + 1 /\ base' <= Len(messages')
  BY <1>1, <1>2, SMTT(30) DEF Recorded
<1> QED
  BY <1>3, <1>4, ZenonT(40) DEF Level, Agree

(* A message that is only recorded puts the transcript ahead by it, or levels it
   with a report that had the message already. *)
LEMMA RecordOnly ==
  ASSUME NEW m \in MessageIds, DataOK, ScalarsOK, base <= Len(messages),
         UNCHANGED <<base, newMessages>>, messages' = Append(messages, m)
  PROVE  /\ base' <= Len(messages') /\ Recorded' = Recorded + 1 /\ Recorded \in Nat
         /\ messages'[Len(messages')] = m
         /\ \A k \in Nat : k <= Recorded /\ Agree(k) =>
              \A i \in 1..k : messages'[base' + i] = newMessages'[i]
         /\ Agree(Recorded) /\ newMessages[Recorded + 1] = m => Agree(Recorded)'
<1> DEFINE l == Len(messages)
           r == Recorded
<1>1. /\ l \in Nat /\ base \in Nat /\ Len(messages') = l + 1 /\ messages'[l + 1] = m
      /\ \A i \in 1..l : messages'[i] = messages[i]
  BY AppendParts, SMTT(30) DEF DataOK, ScalarsOK
<1>2. r = l - base /\ r \in Nat
  BY <1>1, SMTT(30) DEF Recorded
<1>3. Recorded' = l + 1 - base
  BY <1>1, SMTT(30) DEF Recorded
<1> HIDE DEF l, r
<1>4. ASSUME NEW k \in Nat, k <= r, Agree(k)
      PROVE  \A i \in 1..k : messages'[base' + i] = newMessages'[i]
  <2> SUFFICES ASSUME NEW i \in 1..k PROVE messages'[base + i] = newMessages[i]
    BY ZenonT(40)
  <2>1. base + i \in 1..l
    BY <1>1, <1>2, <1>4, SMTT(30)
  <2> QED
    BY <1>1, <1>4, <2>1, ZenonT(40) DEF Agree
<1>5. ASSUME Agree(r), newMessages[r + 1] = m
      PROVE  \A i \in 1..(r + 1) : messages'[base + i] = newMessages[i]
  <2> SUFFICES ASSUME NEW i \in 1..(r + 1) PROVE messages'[base + i] = newMessages[i]
    OBVIOUS
  <2>1. CASE i = r + 1
    BY <1>1, <1>2, <1>5, <2>1, SMTT(30)
  <2>2. CASE i \in 1..r
    <3>1. base + i \in 1..l
      BY <1>1, <1>2, <2>2, SMTT(30)
    <3> QED
      BY <1>1, <1>5, <2>2, <3>1, ZenonT(40) DEF Agree
  <2>3. i = r + 1 \/ i \in 1..r
    <3>1. r \in Nat
      BY <1>2
    <3> QED
      BY <3>1, SMTT(30)
  <2> QED
    BY <2>1, <2>2, <2>3, ZenonT(40)
<1>6. base' <= Len(messages') /\ Recorded' = r + 1 /\ messages'[Len(messages')] = m
  BY <1>1, <1>2, <1>3, SMTT(30)
<1>7. Agree(r) /\ newMessages[r + 1] = m => Agree(Recorded)'
  BY <1>5, <1>6 DEF Agree
<1> QED
  BY <1>2, <1>4, <1>6, <1>7, ZenonT(40) DEF r

(* An emitted event is taken from the front of what the loop has to emit. *)
LEMMA EmitFront ==
  ASSUME DataOK, EmitNext
  PROVE  /\ out # <<>> /\ out' = Tail(out) /\ out[1] \in EventType
         /\ out \in Seq(EventType) /\ Len(out) \in Nat \ {0} /\ Len(out') = Len(out) - 1
         /\ \A i \in DOMAIN out' : i + 1 \in DOMAIN out /\ out'[i] = out[i + 1]
         /\ DOMAIN out = 1..Len(out) /\ DOMAIN out' = 1..(Len(out) - 1)
         /\ UNCHANGED <<pc, throws, resets, base>>
         /\ out[1].type # "message" => UNCHANGED <<messages, newMessages>>
         /\ out[1].type = "message" =>
              /\ out[1].msg \in MessageIds /\ messages' = Append(messages, out[1].msg)
              /\ newMessages' = IF out[1].push THEN Append(newMessages, out[1].msg)
                                ELSE newMessages
<1>1. out # <<>> /\ out' = Tail(out) /\ out \in Seq(EventType)
  BY DEF EmitNext, DataOK
<1>2. /\ Len(out) \in Nat \ {0} /\ Len(out') = Len(out) - 1 /\ out[1] \in EventType
      /\ Head(out) = out[1] /\ DOMAIN out = 1..Len(out) /\ DOMAIN out' = 1..(Len(out) - 1)
      /\ \A i \in 1..(Len(out) - 1) : out'[i] = out[i + 1]
  BY <1>1, SMTT(30)
<1>3. \A i \in DOMAIN out' : i + 1 \in DOMAIN out /\ out'[i] = out[i + 1]
  BY <1>2, SMTT(30)
<1>4. /\ UNCHANGED <<pc, throws, resets, base>>
      /\ messages' = IF out[1].type = "message" THEN Append(messages, out[1].msg) ELSE messages
      /\ newMessages' = IF out[1].push THEN Append(newMessages, out[1].msg) ELSE newMessages
  BY <1>2, ZenonT(40) DEF EmitNext, Reduce, inputVars, runVars
<1> QED
  BY <1>1, <1>2, <1>3, <1>4, EventShape, ZenonT(40)

(* Emitting the prompts brings the transcript up with the report. *)
LEMMA EmitBehind ==
  ASSUME DataOK, ScalarsOK, EmitNext, Behind, base <= Len(messages)
  PROVE  Behind' /\ base' <= Len(messages')
<1> DEFINE n == Len(newMessages)
           o == Len(out)
           r == Recorded
<1>1. PICK k \in Nat : BehindBy(k)
  BY ZenonT(40) DEF Behind
<1>2. /\ n \in Nat /\ o \in Nat \ {0} /\ r \in Nat
  BY EmitFront, SMTT(30) DEF Recorded, DataOK, ScalarsOK
<1>3. /\ k \in 0..o /\ n = r + k /\ Agree(r)
      /\ \A i \in 1..o : IF i <= o - k THEN out[i].type # "message"
                         ELSE out[i] = Announce(newMessages[n - o + i])
  BY <1>1 DEF BehindBy
<1>4. Len(out') = o - 1 /\ base' = base /\ \A i \in 1..(o - 1) : out'[i] = out[i + 1]
  BY EmitFront
<1>5. CASE k < o
  <2>1. out[1].type # "message"
    BY <1>2, <1>3, <1>5, SMTT(30)
  <2>2. UNCHANGED <<messages, newMessages>>
    BY <2>1, EmitFront, ZenonT(40)
  <2>3. Recorded' = r /\ Len(newMessages') = n /\ Agree(Recorded)'
    BY <1>3, <1>4, <2>2, ZenonT(40) DEF Agree, Recorded
  <2>4. base' <= Len(messages')
    BY <1>4, <2>2
  <2> HIDE DEF n, o, r
  <2>5. \A i \in 1..(o - 1) : IF i <= o - 1 - k THEN out'[i].type # "message"
                              ELSE out'[i] = Announce(newMessages'[n - (o - 1) + i])
    <3> SUFFICES ASSUME NEW i \in 1..(o - 1)
                 PROVE  IF i <= o - 1 - k THEN out'[i].type # "message"
                        ELSE out'[i] = Announce(newMessages'[n - (o - 1) + i])
      OBVIOUS
    <3>1. /\ i + 1 \in 1..o /\ (i + 1 <= o - k <=> i <= o - 1 - k)
          /\ n - o + (i + 1) = n - (o - 1) + i
      BY <1>2, <1>3, SMTT(30)
    <3>2. out'[i] = out[i + 1]
      BY <1>4
    <3>3. IF i + 1 <= o - k THEN out[i + 1].type # "message"
          ELSE out[i + 1] = Announce(newMessages[n - o + (i + 1)])
      BY <1>3, <3>1, ZenonT(40)
    <3> QED
      BY <2>2, <3>1, <3>2, <3>3, ZenonT(40)
  <2>6. k \in 0..(o - 1) /\ n = r + k
    BY <1>2, <1>3, <1>5, SMTT(30)
  <2>7. BehindBy(k)'
    BY <1>4, <2>3, <2>5, <2>6, ZenonT(40) DEF BehindBy
  <2> QED
    BY <2>4, <2>7, ZenonT(40) DEF Behind
<1>6. CASE k = o
  <2>1. 1 \in 1..o /\ ~(1 <= o - k) /\ n - o + 1 = r + 1
    BY <1>2, <1>3, <1>6, SMTT(30)
  <2> DEFINE m == newMessages[r + 1]
  <2>2. out[1] = Announce(m)
    BY <1>3, <2>1, ZenonT(40)
  <2>3. out[1].type = "message" /\ ~out[1].push /\ out[1].msg = m
    BY <2>2, SMTT(30) DEF Announce, Event
  <2>4. m \in MessageIds /\ messages' = Append(messages, m) /\ newMessages' = newMessages
    BY <2>3, EmitFront
  <2>5. base' <= Len(messages') /\ Recorded' = r + 1 /\ Agree(Recorded)'
    BY <1>3, <1>4, <2>4, RecordOnly, ZenonT(40)
  <2>6. Len(newMessages') = n
    BY <2>4
  <2> HIDE DEF n, o, r, m
  <2>7. \A i \in 1..(o - 1) : /\ ~(i <= o - 1 - (k - 1))
                              /\ out'[i] = Announce(newMessages'[n - (o - 1) + i])
    <3> SUFFICES ASSUME NEW i \in 1..(o - 1)
                 PROVE  /\ ~(i <= o - 1 - (k - 1))
                        /\ out'[i] = Announce(newMessages'[n - (o - 1) + i])
      BY ZenonT(40)
    <3>1. /\ i + 1 \in 1..o /\ ~(i + 1 <= o - k) /\ ~(i <= o - 1 - (k - 1))
          /\ n - o + (i + 1) = n - (o - 1) + i
      BY <1>2, <1>3, <1>6, SMTT(30)
    <3>2. out'[i] = out[i + 1] /\ out[i + 1] = Announce(newMessages[n - o + (i + 1)])
      BY <1>3, <1>4, <3>1, ZenonT(40)
    <3> QED
      BY <2>4, <3>1, <3>2, ZenonT(40)
  <2>8. k - 1 \in 0..(o - 1) /\ k - 1 \in Nat /\ n = (r + 1) + (k - 1)
    BY <1>2, <1>3, <1>6, SMTT(30)
  <2>9. BehindBy(k - 1)'
    BY <1>4, <2>5, <2>6, <2>7, <2>8, ZenonT(40) DEF BehindBy
  <2> QED
    BY <2>5, <2>8, <2>9, ZenonT(40) DEF Behind
<1> QED
  BY <1>2, <1>3, <1>5, <1>6, SMTT(30)

(* Emitting keeps ReportInv, *)
LEMMA EmitReport ==
  ASSUME DataOK, ScalarsOK, ReportInv, EmitNext
  PROVE  ReportInv'
<1>1. UNCHANGED <<pc, throws, resets>>
  BY EmitFront
<1> SUFFICES ASSUME throws = 0, resets = 0, pc \notin {"idle", "failing"} PROVE ReportInv'
  BY <1>1, ZenonT(40) DEF ReportInv
<1>2. base <= Len(messages) /\ Len(newMessages) \in Nat /\ Len(messages) \in Nat /\ base \in Nat
  BY SMTT(30) DEF ReportInv, DataOK, ScalarsOK
<1>3. Assistant \in MessageIds /\ ToolResult \in MessageIds /\ Terminal \in MessageIds
  BY MessageNumbers, SMTT(30) DEF DataOK
<1>4. ASSUME Pushes(out), Level PROVE Pushes(out') /\ Level' /\ base' <= Len(messages')
  <2>1. Pushes(out')
    BY <1>4, EmitFront DEF Pushes
  <2>2. CASE out[1].type # "message"
    BY <1>2, <1>4, <2>1, <2>2, EmitFront, ZenonT(40) DEF Level, Recorded, Agree
  <2>3. CASE out[1].type = "message"
    <3>1. 1 \in DOMAIN out
      BY EmitFront, SMTT(30)
    <3>2. out[1].push
      BY <1>4, <2>3, <3>1, ZenonT(40) DEF Pushes
    <3>3. /\ messages' = Append(messages, out[1].msg)
          /\ newMessages' = Append(newMessages, out[1].msg)
          /\ out[1].msg \in MessageIds /\ base' = base
      BY <2>3, <3>2, EmitFront, ZenonT(40)
    <3> QED
      BY <1>2, <1>4, <2>1, <3>3, PushLevel, ZenonT(40)
  <2> QED
    BY <2>2, <2>3
<1>5. ASSUME NEW m \in MessageIds, out = <<Announce(m)>>, Level
      PROVE  AheadBy(m)' /\ base' <= Len(messages')
  <2>1. out[1].type = "message" /\ ~out[1].push /\ out[1].msg = m /\ Tail(out) = <<>>
    BY <1>5, SMTT(30) DEF Announce, Event
  <2>2. /\ out' = <<>> /\ messages' = Append(messages, m) /\ newMessages' = newMessages
        /\ base' = base
    BY <2>1, EmitFront
  <2>3. /\ base' <= Len(messages') /\ Recorded' = Recorded + 1 /\ messages'[Len(messages')] = m
        /\ \A k \in Nat : k <= Recorded /\ Agree(k) =>
             \A i \in 1..k : messages'[base' + i] = newMessages'[i]
    BY <1>2, <2>2, RecordOnly, ZenonT(40)
  <2>4. Agree(Len(newMessages)) /\ Recorded = Len(newMessages)
    BY <1>5 DEF Level
  <2>5. \A i \in 1..Len(newMessages) : messages'[base' + i] = newMessages'[i]
    <3>1. Len(newMessages) \in Nat /\ Len(newMessages) <= Recorded
      BY <1>2, <2>4, SMTT(30)
    <3> QED
      BY <2>3, <2>4, <3>1, ZenonT(40)
  <2> QED
    BY <2>2, <2>3, <2>4, <2>5, ZenonT(40) DEF AheadBy, Agree
<1>6. CASE pc = "poll"
  BY <1>1, <1>2, <1>6, EmitBehind, ZenonT(40) DEF ReportInv
<1>7. CASE pc = "received"
  <2>1. out = <<Announce(Assistant)>> /\ Level
    BY <1>7, EmitFront, ZenonT(40) DEF ReportInv, AheadBy
  <2> QED
    BY <1>1, <1>3, <1>5, <1>7, <2>1, ZenonT(40) DEF ReportInv
<1>8. CASE pc = "executed"
  <2>1. out = <<Announce(ToolResult)>> /\ Level
    BY <1>8, EmitFront DEF ReportInv, AheadBy
  <2> QED
    BY <1>1, <1>3, <1>5, <1>8, <2>1, ZenonT(40) DEF ReportInv
<1>9. CASE pc = "ended" /\ Aborting
  <2>1. CASE out = <<TurnStart, Announce(Terminal), TurnEnd, AgentEnd>>
    <3>1. out[1].type # "message" /\ Tail(out) = <<Announce(Terminal), TurnEnd, AgentEnd>>
      BY <2>1, SMTT(30) DEF TurnStart, Event
    <3>2. /\ UNCHANGED <<messages, newMessages, base>>
          /\ out' = <<Announce(Terminal), TurnEnd, AgentEnd>>
      BY <3>1, EmitFront
    <3>3. Aborting' /\ base' <= Len(messages')
      BY <1>2, <1>9, <3>2 DEF Aborting, Recorded, Agree
    <3> QED
      BY <1>1, <1>9, <3>3, ZenonT(40) DEF ReportInv
  <2>2. CASE out = <<Announce(Terminal), TurnEnd, AgentEnd>>
    <3>1. /\ out[1].type = "message" /\ ~out[1].push /\ out[1].msg = Terminal
          /\ Tail(out) = <<TurnEnd, AgentEnd>>
      BY <2>2, SMTT(30) DEF Announce, Event
    <3>2. /\ messages' = Append(messages, Terminal) /\ UNCHANGED <<base, newMessages>>
          /\ out' = <<TurnEnd, AgentEnd>>
      BY <3>1, EmitFront
    <3>3. Len(newMessages) = Recorded + 1 /\ Agree(Recorded) /\ newMessages[Recorded + 1] = Terminal
      BY <1>9 DEF Aborting
    <3>4. base' <= Len(messages') /\ Recorded' = Recorded + 1 /\ Agree(Recorded)'
      BY <1>2, <1>3, <3>2, <3>3, RecordOnly, ZenonT(40)
    <3>5. Level'
      BY <3>2, <3>3, <3>4, ZenonT(40) DEF Level
    <3>6. Pushes(out')
      BY <3>2, SMTT(30) DEF Pushes, TurnEnd, AgentEnd, Event
    <3> QED
      BY <1>1, <1>9, <3>4, <3>5, <3>6, ZenonT(40) DEF ReportInv
  <2> QED
    BY <1>9, <2>1, <2>2, ZenonT(40) DEF Aborting
<1>10. CASE pc \notin {"poll", "received", "executed"} /\ ~(pc = "ended" /\ Aborting)
  <2>1. Pushes(out) /\ Level
    BY <1>10 DEF ReportInv
  <2> QED
    BY <1>1, <1>4, <1>10, <2>1, ZenonT(40) DEF ReportInv
<1> QED
  BY <1>6, <1>7, <1>8, <1>9, <1>10, ZenonT(40)

(* and so does the start of a run, which takes the prompts for its report. *)
LEMMA StartReport ==
  ASSUME DataOK, ScalarsOK, NEW prompts \in Seq(MessageIds), NEW skip \in BOOLEAN,
         StartRun(prompts, skip)
  PROVE  ReportInv'
<1> DEFINE a == Announcements(prompts)
           n == Len(prompts)
<1>1. /\ pc' = "poll" /\ out' = <<AgentStart, TurnStart>> \o a
      /\ newMessages' = prompts /\ messages' = messages /\ base' = Len(messages)
  BY ZenonT(40) DEF StartRun
<1>2. /\ a \in Seq(EventType) /\ Len(a) = n /\ n \in Nat /\ Len(messages) \in Nat
      /\ AgentStart \in EventType /\ TurnStart \in EventType
  BY ListsTyped, EventsTyped, SMTT(30) DEF DataOK
<1>3. \A i \in 1..n : a[i] = Announce(prompts[i])
  BY DEF Announcements
<1> HIDE DEF a
<1>4. /\ Len(out') = n + 2 /\ out'[1] = AgentStart /\ out'[2] = TurnStart
      /\ \A i \in 1..n : out'[i + 2] = a[i]
  <2>1. /\ <<AgentStart, TurnStart>> \in Seq(EventType) /\ Len(<<AgentStart, TurnStart>>) = 2
        /\ <<AgentStart, TurnStart>>[1] = AgentStart /\ <<AgentStart, TurnStart>>[2] = TurnStart
    BY <1>2, SMTT(30)
  <2> DEFINE h == <<AgentStart, TurnStart>>
  <2> HIDE DEF h, n
  <2>2. /\ Len(h \o a) = Len(h) + Len(a)
        /\ \A i \in 1..(Len(h) + Len(a)) : (h \o a)[i] = IF i <= Len(h) THEN h[i] ELSE a[i - Len(h)]
    BY <1>2, <2>1, ConcatParts, ZenonT(40) DEF h
  <2>3. Len(out') = n + 2 /\ \A i \in 1..(n + 2) : out'[i] = IF i <= 2 THEN h[i] ELSE a[i - 2]
    BY <1>1, <1>2, <2>1, <2>2, SMTT(30) DEF h
  <2>4. 1 \in 1..(n + 2) /\ 2 \in 1..(n + 2)
    BY <1>2, SMTT(30)
  <2>5. \A i \in 1..n : out'[i + 2] = a[i]
    <3> SUFFICES ASSUME NEW i \in 1..n PROVE out'[i + 2] = a[i]
      OBVIOUS
    <3>1. i + 2 \in 1..(n + 2) /\ ~(i + 2 <= 2) /\ (i + 2) - 2 = i
      BY <1>2, SMTT(30)
    <3> QED
      BY <2>3, <3>1
  <2>6. out'[1] = h[1] /\ out'[2] = h[2]
    BY <2>3, <2>4, SMTT(30)
  <2> QED
    BY <2>1, <2>3, <2>5, <2>6, ZenonT(40) DEF h
<1>5. AgentStart.type # "message" /\ TurnStart.type # "message"
  BY DEF AgentStart, TurnStart, Event
<1> HIDE DEF n
<1>6. \A i \in 1..(n + 2) : IF i <= (n + 2) - n THEN out'[i].type # "message"
                            ELSE out'[i] = Announce(prompts[n - (n + 2) + i])
  <2> SUFFICES ASSUME NEW i \in 1..(n + 2)
               PROVE  IF i <= (n + 2) - n THEN out'[i].type # "message"
                      ELSE out'[i] = Announce(prompts[n - (n + 2) + i])
    BY ZenonT(40)
  <2>1. CASE i \in {1, 2}
    BY <1>2, <1>4, <1>5, <2>1, SMTT(30)
  <2>2. CASE i \notin {1, 2}
    <3>1. i - 2 \in 1..n /\ (i - 2) + 2 = i /\ ~(i <= (n + 2) - n) /\ n - (n + 2) + i = i - 2
      BY <1>2, <2>2, SMTT(30)
    <3>2. out'[(i - 2) + 2] = a[i - 2] /\ a[i - 2] = Announce(prompts[i - 2])
      BY <1>3, <1>4, <3>1, ZenonT(40)
    <3> QED
      BY <3>1, <3>2, ZenonT(40)
  <2> QED
    BY <2>1, <2>2
<1>7. Len(newMessages') = n /\ Recorded' = 0 /\ Agree(Recorded)'
  BY <1>1, <1>2, SMTT(30) DEF Recorded, Agree, n
<1>8. n \in 0..(n + 2) /\ n = 0 + n
  BY <1>2, SMTT(30)
<1>9. BehindBy(n)'
  <2>1. n' = n
    BY DEF n
  <2> QED
    BY <1>1, <1>4, <1>6, <1>7, <1>8, <2>1, SMTT(30) DEF BehindBy
<1>10. Behind' /\ base' <= Len(messages')
  BY <1>1, <1>2, <1>9, SMTT(30) DEF Behind
<1> QED
  BY <1>1, <1>10 DEF ReportInv

(* ReportInv is kept by every step. *)
LEMMA ReportInvStep ==
  ASSUME ScalarsOK, DataOK, ReportInv, [Next]_vars
  PROVE  ReportInv'
<1>1. CASE Settle
  <2>1. pc' = "idle"
    BY <1>1, ZenonT(40) DEF Settle, FinishRun
  <2> QED
    BY <2>1 DEF ReportInv
<1>2. CASE Fault
  <2>1. throws' = throws + 1
    BY <1>2 DEF Fault, ListenerThrows, MessageStartThrows, HookThrows, RunThrows
  <2> QED
    BY <2>1, SMTT(30) DEF ReportInv, ScalarsOK
<1>3. ASSUME UNCHANGED <<pc, out, newMessages, base, throws>>,
             UNCHANGED <<messages, resets>> \/ resets' = resets + 1
      PROVE  ReportInv'
  <2>1. CASE UNCHANGED <<messages, resets>>
    BY <1>3, <2>1, ZenonT(40)
    DEF ReportInv, BehindBy, Behind, Level, AheadBy, Aborting, Recorded, Agree
  <2>2. CASE resets' = resets + 1
    BY <2>2, SMTT(30) DEF ReportInv, ScalarsOK
  <2> QED
    BY <1>3, <2>1, <2>2, ZenonT(40)
<1>4. CASE Quiet
  <2>1. /\ UNCHANGED <<pc, out, newMessages, base, throws>>
        /\ messages' = messages \/ resets' = resets + 1
        /\ resets' = resets \/ resets' = resets + 1
    BY <1>4, QuietFrame DEF runVars
  <2> QED
    BY <1>3, <2>1
<1>5. ASSUME NEW k, NEW kind, Enqueued(k, kind) PROVE ReportInv'
  BY <1>3, <1>5 DEF Enqueued, eventVars, runVars
<1>6. CASE UNCHANGED vars
  BY <1>3, <1>6 DEF vars, eventVars, inputVars, runVars
<1>7. CASE Starts
  <2>1. \E prompts \in Seq(MessageIds), skip \in BOOLEAN : StartRun(prompts, skip)
    BY <1>7, StartsWith, ZenonT(40)
  <2> QED
    BY <2>1, StartReport
<1> QED
  BY <1>1, <1>2, <1>4, <1>5, <1>6, <1>7, StepKinds, LoopReport, EmitReport, ZenonT(40)

(* What agent_end reports is what the run added to the transcript, in the same
   order, at every exit of runLoop, for any number of prompts, turns, queued
   messages and runs, as long as no listener or hook fails and nobody resets the
   agent meanwhile. *)
THEOREM ReportIsTranscript == Spec => []ReportMatchesTranscript
<1> DEFINE inv == ScalarsOK /\ DataOK /\ ReportInv
<1>1. Init => inv
  <2> SUFFICES ASSUME Init PROVE inv
    OBVIOUS
  <2>1. ScalarsOK /\ DataOK
    BY TypesInit
  <2>2. pc = "idle"
    BY DEF Init
  <2> QED
    BY <2>1, <2>2 DEF ReportInv
<1>2. inv /\ [Next]_vars => inv'
  BY TypesStep, ReportInvStep
<1>3. inv => ReportMatchesTranscript
  <2> SUFFICES ASSUME ScalarsOK, DataOK, ReportInv, throws = 0, resets = 0, pc = "ended",
                      out = <<AgentEnd>>
               PROVE  newMessages = SubSeq(messages, base + 1, Len(messages))
    BY DEF ReportMatchesTranscript
  <2>1. Len(out) = 1
    OBVIOUS
  <2>2. ~Aborting
    BY <2>1 DEF Aborting
  <2>3. base <= Len(messages) /\ Level
    BY <2>2, ZenonT(40) DEF ReportInv
  <2> DEFINE s == SubSeq(messages, base + 1, Len(messages))
             l == Len(messages)
  <2>4. l \in Nat /\ base \in Nat /\ messages \in Seq(MessageIds) /\ newMessages \in Seq(MessageIds)
    BY SMTT(30) DEF DataOK, ScalarsOK
  <2>5. /\ l - base = Len(newMessages)
        /\ \A i \in 1..Len(newMessages) : messages[base + i] = newMessages[i]
    BY <2>3, ZenonT(40) DEF Level, Recorded, Agree
  <2>6. /\ s \in Seq(MessageIds) /\ Len(s) = l - base
        /\ \A i \in 1..(l - base) : s[i] = messages[base + i]
    <3>1. base + 1 \in 1..(l + 1) /\ l \in base..l
      BY <2>3, <2>4, SMTT(30)
    <3>2. \A i \in (base + 1)..l : i \in 1..l
      BY <2>4, SMTT(30)
    <3> QED
      BY <2>3, <2>4, <3>1, <3>2, SubSeqParts, SMTT(30)
  <2> HIDE DEF s, l
  <2>7. Len(s) = Len(newMessages) /\ \A i \in 1..Len(s) : s[i] = newMessages[i]
    BY <2>5, <2>6
  <2>8. s = newMessages
    BY <2>4, <2>6, <2>7, SameSeq, ZenonT(40)
  <2> QED
    BY <2>8 DEF s, l
<1> QED
  BY <1>1, <1>2, <1>3, PTL DEF Spec

==============================================================================
