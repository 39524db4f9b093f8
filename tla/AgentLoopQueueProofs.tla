------------------------ MODULE AgentLoopQueueProofs -------------------------
(***************************************************************************)
(* What becomes of the messages passed to steer and followUp: where each   *)
(* of them is, and in which order they are delivered.                      *)
(***************************************************************************)
EXTENDS AgentLoopProofs

(* A leaf that names no prover is Zenon's. *)
USE Zenon

-----------------------------------------------------------------------------
(* The places of the queued messages. *)

(* Two sequences in a row, by their indices. *)
Joined(s, t) ==
  /\ Len(s) \in Nat /\ Len(t) \in Nat /\ DOMAIN s = 1..Len(s) /\ DOMAIN t = 1..Len(t)
  /\ DOMAIN (s \o t) = 1..(Len(s) + Len(t))
  /\ \A i \in 1..(Len(s) + Len(t)) :
       (s \o t)[i] = IF i <= Len(s) THEN s[i] ELSE t[i - Len(s)]

(* Two sequences joined, index by index. *)
LEMMA ConcatIndices ==
  ASSUME NEW S, NEW s \in Seq(S), NEW t \in Seq(S)
  PROVE  Joined(s, t)
<1>1. s \o t \in Seq(S) /\ Len(s \o t) = Len(s) + Len(t)
  BY ConcatParts
<1>2. DOMAIN (s \o t) = 1..Len(s \o t)
  BY <1>1, SeqParts
<1> QED
  BY <1>1, <1>2, SeqParts, ConcatParts DEF Joined

(* The elements of two sequences in a row. *)
LEMMA RangeConcat ==
  ASSUME NEW S, NEW s \in Seq(S), NEW t \in Seq(S)
  PROVE  Range(s \o t) = Range(s) \cup Range(t)
<1>1. Joined(s, t)
  BY ConcatIndices
<1>2. ASSUME NEW i \in DOMAIN (s \o t) PROVE (s \o t)[i] \in Range(s) \cup Range(t)
  <2>1. \/ i \in DOMAIN s /\ (s \o t)[i] = s[i]
        \/ i - Len(s) \in DOMAIN t /\ (s \o t)[i] = t[i - Len(s)]
    BY <1>1, SMTT(30) DEF Joined
  <2> QED
    BY <2>1 DEF Range
<1>3. ASSUME NEW i \in DOMAIN s PROVE s[i] \in Range(s \o t)
  <2>1. i \in DOMAIN (s \o t) /\ (s \o t)[i] = s[i]
    BY <1>1, SMTT(30) DEF Joined
  <2> QED
    BY <2>1 DEF Range
<1>4. ASSUME NEW i \in DOMAIN t PROVE t[i] \in Range(s \o t)
  <2>1. i + Len(s) \in DOMAIN (s \o t) /\ (s \o t)[i + Len(s)] = t[i]
    BY <1>1, SMTT(30) DEF Joined
  <2> QED
    BY <2>1 DEF Range
<1> QED
  BY <1>2, <1>3, <1>4 DEF Range

(* Every message of A was queued before every message of B of the same kind. *)
Ahead(q, A, B) == \A a \in A, b \in B : q[a].kind = q[b].kind => a < b

(* The messages of s are in the order they were queued, per kind. *)
InLine(q, s) ==
  \A i, j \in DOMAIN s : i < j /\ q[s[i]].kind = q[s[j]].kind => s[i] < s[j]

(* A queue that is drained and what it leaves behind. *)
LEMMA SplitLine ==
  ASSUME NEW S, NEW s \in Seq(S), NEW t \in Seq(S), NEW q, InLine(q, s \o t)
  PROVE  InLine(q, s) /\ InLine(q, t) /\ Ahead(q, Range(s), Range(t))
<1>1. Joined(s, t)
  BY ConcatIndices
<1>2. \A i \in DOMAIN s : i \in DOMAIN (s \o t) /\ (s \o t)[i] = s[i]
  BY <1>1, SMTT(30) DEF Joined
<1>3. \A i \in DOMAIN t : i + Len(s) \in DOMAIN (s \o t) /\ (s \o t)[i + Len(s)] = t[i]
  BY <1>1, SMTT(30) DEF Joined
<1>4. InLine(q, s)
  BY <1>2 DEF InLine
<1>5. ASSUME NEW i \in DOMAIN t, NEW j \in DOMAIN t, i < j, q[t[i]].kind = q[t[j]].kind
      PROVE  t[i] < t[j]
  <2>1. i + Len(s) < j + Len(s)
    BY <1>1, <1>5, SMTT(30) DEF Joined
  <2> QED
    BY <1>3, <1>5, <2>1 DEF InLine
<1>6. ASSUME NEW i \in DOMAIN s, NEW j \in DOMAIN t, q[s[i]].kind = q[t[j]].kind
      PROVE  s[i] < t[j]
  <2>1. i < j + Len(s)
    BY <1>1, SMTT(30) DEF Joined
  <2> QED
    BY <1>2, <1>3, <1>6, <2>1 DEF InLine
<1> QED
  BY <1>4, <1>5, <1>6 DEF InLine, Ahead, Range

(* A queue that gets another group. *)
LEMMA JoinLine ==
  ASSUME NEW S, NEW s \in Seq(S), NEW t \in Seq(S), NEW q,
         InLine(q, s), InLine(q, t), Ahead(q, Range(s), Range(t))
  PROVE  InLine(q, s \o t)
<1>1. Joined(s, t)
  BY ConcatIndices
<1> SUFFICES ASSUME NEW i \in DOMAIN (s \o t), NEW j \in DOMAIN (s \o t), i < j,
                    q[(s \o t)[i]].kind = q[(s \o t)[j]].kind
             PROVE  (s \o t)[i] < (s \o t)[j]
  BY DEF InLine
<1>2. \/ i \in DOMAIN s /\ (s \o t)[i] = s[i] /\ j \in DOMAIN s /\ (s \o t)[j] = s[j]
      \/ /\ i \in DOMAIN s /\ (s \o t)[i] = s[i]
         /\ j - Len(s) \in DOMAIN t /\ (s \o t)[j] = t[j - Len(s)]
      \/ /\ i - Len(s) \in DOMAIN t /\ (s \o t)[i] = t[i - Len(s)]
         /\ j - Len(s) \in DOMAIN t /\ (s \o t)[j] = t[j - Len(s)]
         /\ i - Len(s) < j - Len(s)
  BY <1>1, SMTT(30) DEF Joined
<1> QED
  BY <1>2 DEF InLine, Ahead, Range

(* The places a queued message goes through: D delivered, O announced but not yet
   recorded, P taken by the loop, W waiting in a queue; C was cleared. *)
Line(q, D, O, P, W, C) ==
  /\ Ahead(q, D, O \cup P \cup W) /\ Ahead(q, O, P \cup W) /\ Ahead(q, P, W)
  /\ C \cap (D \cup O \cup P \cup W) = {}

(* Messages move towards the transcript without overtaking one another. *)
LEMMA LineMoves ==
  ASSUME NEW q, NEW D \in SUBSET Int, NEW O \in SUBSET Int, NEW P \in SUBSET Int,
         NEW W \in SUBSET Int, NEW C, NEW X, NEW Y, Line(q, D, O, P, W, C)
  PROVE  /\ O = X \cup Y /\ Ahead(q, X, Y) => Line(q, D \cup X, Y, P, W, C)
         /\ O = {} => Line(q, D, P, {}, W, C)
         /\ P = {} /\ W = X \cup Y /\ Ahead(q, X, Y) => Line(q, D, O, X, Y, C)
         /\ O = {} /\ P = {} /\ W = X \cup Y /\ Ahead(q, X, Y) => Line(q, D, X, {}, Y, C)
         /\ Line(q, D, {}, {}, W, C)
         /\ W = X \cup Y /\ X \cap Y = {} => Line(q, D, O, P, Y, C \cup X)
<1>1. ASSUME O = X \cup Y, Ahead(q, X, Y) PROVE Line(q, D \cup X, Y, P, W, C)
  BY <1>1 DEF Line, Ahead
<1>2. ASSUME O = {} PROVE Line(q, D, P, {}, W, C)
  BY <1>2 DEF Line, Ahead
<1>3. ASSUME P = {}, W = X \cup Y, Ahead(q, X, Y) PROVE Line(q, D, O, X, Y, C)
  BY <1>3 DEF Line, Ahead
<1>4. ASSUME O = {}, P = {}, W = X \cup Y, Ahead(q, X, Y) PROVE Line(q, D, X, {}, Y, C)
  BY <1>4 DEF Line, Ahead
<1>5. Line(q, D, {}, {}, W, C)
  BY DEF Line, Ahead
<1>6. ASSUME W = X \cup Y, X \cap Y = {} PROVE Line(q, D, O, P, Y, C \cup X)
  <2>1. \A x \in X : ~(x < x)
    BY <1>6, SMTT(30)
  <2> QED
    BY <1>6, <2>1 DEF Line, Ahead
<1> QED
  BY <1>1, <1>2, <1>3, <1>4, <1>5, <1>6

(* The queued messages that the events of s will record. *)
Positive == Nat \ {0}
Carried(s) == {m \in Positive : \E i \in DOMAIN s : s[i].msg = m}

OutInLine(q, s) ==
  \A i, j \in DOMAIN s :
    /\ i < j /\ s[i].msg \in Positive /\ s[j].msg \in Positive
    /\ q[s[i].msg].kind = q[s[j].msg].kind
    => s[i].msg < s[j].msg

(* A burst of events is of queued messages only, or has none. *)
Pure(s) == Carried(s) # {} => \A i \in DOMAIN s : s[i].type = "message" => s[i].msg \in Positive

Mute(s) == \A i \in DOMAIN s : s[i].msg \notin Positive

(* Events without a queued message carry none. *)
LEMMA MuteCarries ==
  ASSUME NEW s, NEW q, Mute(s)
  PROVE  Carried(s) = {} /\ OutInLine(q, s) /\ Pure(s)
BY DEF Mute, Carried, OutInLine, Pure

(* The first event is recorded. *)
LEMMA TailCarries ==
  ASSUME NEW s \in Seq(EventType), NEW q, s # <<>>
  PROVE  /\ Carried(s) = ({Head(s).msg} \cap Positive) \cup Carried(Tail(s))
         /\ OutInLine(q, s) => /\ OutInLine(q, Tail(s))
                               /\ Ahead(q, {Head(s).msg} \cap Positive, Carried(Tail(s)))
         /\ Pure(s) => Pure(Tail(s))
<1>1. /\ Len(s) \in Nat \ {0} /\ Head(s) = s[1] /\ DOMAIN s = 1..Len(s)
      /\ DOMAIN Tail(s) = 1..(Len(s) - 1)
      /\ \A i \in 1..(Len(s) - 1) : Tail(s)[i] = s[i + 1]
  <2>1. Tail(s) \in Seq(EventType) /\ Len(Tail(s)) = Len(s) - 1
    BY HeadTail
  <2>2. DOMAIN Tail(s) = 1..Len(Tail(s))
    BY <2>1, SeqParts
  <2> QED
    BY <2>1, <2>2, SeqParts, EmptySeq, HeadTail, SMTT(30)
<1>2. 1 \in DOMAIN s /\ \A i \in DOMAIN Tail(s) : /\ i + 1 \in DOMAIN s /\ 1 < i + 1
                                                  /\ Tail(s)[i] = s[i + 1]
  BY <1>1, SMTT(30)
<1>3. \A i \in DOMAIN s : i = 1 \/ (i - 1 \in DOMAIN Tail(s) /\ s[i] = Tail(s)[i - 1])
  BY <1>1, SMTT(30)
<1>4. \A i, j \in DOMAIN Tail(s) : i < j => i + 1 < j + 1
  BY <1>1, SMTT(30)
<1>5. Carried(s) = ({Head(s).msg} \cap Positive) \cup Carried(Tail(s))
  <2>1. \A m \in Positive : (\E i \in DOMAIN s : s[i].msg = m)
                              <=> (Head(s).msg = m \/ \E i \in DOMAIN Tail(s) : Tail(s)[i].msg = m)
    BY <1>1, <1>2, <1>3, ZenonT(40)
  <2> QED
    BY <2>1 DEF Carried
<1>6. OutInLine(q, s) => OutInLine(q, Tail(s))
  BY <1>2, <1>4 DEF OutInLine
<1>7. OutInLine(q, s) => Ahead(q, {Head(s).msg} \cap Positive, Carried(Tail(s)))
  <2> SUFFICES ASSUME OutInLine(q, s), s[1].msg \in Positive,
                      NEW i \in DOMAIN Tail(s), Tail(s)[i].msg \in Positive,
                      q[s[1].msg].kind = q[Tail(s)[i].msg].kind
               PROVE  s[1].msg < Tail(s)[i].msg
    BY <1>1 DEF Ahead, Carried
  <2> QED
    BY <1>2 DEF OutInLine
<1>8. Pure(s) => Pure(Tail(s))
  BY <1>2, <1>5 DEF Pure
<1> QED
  BY <1>5, <1>6, <1>7, <1>8

(* The messages the loop or continue took are announced in their order. *)
LEMMA ListCarries ==
  ASSUME DataOK, NEW m \in Seq(Queued), NEW q, NEW r \in Seq(EventType), NEW s,
         \A i \in DOMAIN r : r[i].type # "message" /\ r[i].msg = 0,
         s = Announcements(m) \/ s = MessageEvents(m)
  PROVE  /\ Carried(r \o s) = Range(m) /\ Pure(r \o s)
         /\ InLine(q, m) => OutInLine(q, r \o s)
<1>1. m \in Seq(MessageIds)
  BY MessageNumbers, SeqMonotonic, SMTT(30) DEF DataOK
<1>2. s \in Seq(EventType) /\ Len(s) = Len(m)
  BY <1>1, ListsTyped
<1>3. \A i \in 1..Len(m) : s[i].msg = m[i] /\ s[i].type = "message"
  <2>1. \A i \in 1..Len(m) : s[i] = Announce(m[i]) \/ s[i] = Message(m[i])
    BY <1>1, ListsTyped
  <2>2. \A x : /\ Announce(x).msg = x /\ Announce(x).type = "message"
               /\ Message(x).msg = x /\ Message(x).type = "message"
    BY DEF Announce, Message
  <2> SUFFICES ASSUME NEW i \in 1..Len(m) PROVE s[i].msg = m[i] /\ s[i].type = "message"
    OBVIOUS
  <2>3. CASE s[i] = Announce(m[i])
    BY <2>2, <2>3
  <2>4. CASE s[i] = Message(m[i])
    BY <2>2, <2>4
  <2> QED
    BY <2>1, <2>3, <2>4
<1>4. DOMAIN m = 1..Len(m) /\ \A i \in DOMAIN m : m[i] \in Positive
  <2>1. Queued \subseteq Positive
    BY SMTT(30) DEF Queued, Positive, DataOK
  <2> QED
    BY <2>1, SeqParts
<1>5. Joined(r, s)
  BY <1>2, ConcatIndices
<1>6. \A i \in DOMAIN (r \o s) :
        \/ (r \o s)[i].msg = 0 /\ (r \o s)[i].type # "message"
        \/ /\ i - Len(r) \in DOMAIN m /\ (r \o s)[i].msg = m[i - Len(r)]
           /\ (r \o s)[i].type = "message"
  BY <1>2, <1>3, <1>4, <1>5, SMTT(30) DEF Joined
<1>7. \A i \in DOMAIN m : i + Len(r) \in DOMAIN (r \o s) /\ (r \o s)[i + Len(r)].msg = m[i]
  BY <1>2, <1>3, <1>4, <1>5, SMTT(30) DEF Joined
<1>8. 0 \notin Positive
  BY DEF Positive
<1>9. Carried(r \o s) = Range(m)
  <2>1. ASSUME NEW k \in Carried(r \o s) PROVE k \in Range(m)
    BY <1>6, <1>8, ZenonT(40) DEF Carried, Range
  <2>2. ASSUME NEW i \in DOMAIN m PROVE m[i] \in Carried(r \o s)
    BY <1>4, <1>7 DEF Carried
  <2> QED
    BY <2>1, <2>2 DEF Range
<1>10. Pure(r \o s)
  BY <1>4, <1>6 DEF Pure
<1>11. ASSUME InLine(q, m) PROVE OutInLine(q, r \o s)
  <2>1. \A i, j \in DOMAIN (r \o s) : i < j => i - Len(r) < j - Len(r)
    BY <1>5, SMTT(30) DEF Joined
  <2> QED
    BY <1>6, <1>8, <1>11, <2>1, ZenonT(40) DEF InLine, OutInLine
<1> QED
  BY <1>9, <1>10, <1>11

(* What a step of runLoop does to the places: it announces what is pending, *)
BeginsTurn ==
  /\ pc = "loop" /\ pc' = "mode" /\ pending' = <<>>
  /\ UNCHANGED <<steeringQueue, followUpQueue>>
  /\ \E r \in Seq(EventType) : /\ \A i \in DOMAIN r : r[i].type # "message" /\ r[i].msg = 0
                               /\ out' = r \o MessageEvents(pending)
(* takes the messages d from a queue, as the mode of the queue says, *)
Drains(d) ==
  \/ /\ d = Drained(steeringMode, steeringQueue)
     /\ steeringQueue' = Remaining(steeringMode, steeringQueue) /\ UNCHANGED followUpQueue
  \/ /\ d = Drained(followUpMode, followUpQueue)
     /\ followUpQueue' = Remaining(followUpMode, followUpQueue) /\ UNCHANGED steeringQueue
(* or moves none. *)
Leaves == UNCHANGED <<steeringQueue, followUpQueue>> /\ pending' = <<>>

Takes == /\ pc # "loop" /\ (pc' # "loop" => pending' = <<>>) /\ Mute(out')
         /\ Drains(pending') \/ Leaves

(* Only the polls take messages, and only the start of a turn announces them. *)
LEMMA LoopPlaces ==
  ASSUME DataOK, LoopStep, pc # "loop" => pending = <<>>
  PROVE  BeginsTurn \/ Takes
<1> DEFINE goal == BeginsTurn \/ Takes
<1> SUFFICES goal
  OBVIOUS
<1> DEFINE mute(e) == e \in EventType /\ e.msg \notin Positive
<1>30. /\ mute(TurnStart) /\ mute(TurnEnd) /\ mute(AgentEnd) /\ mute(Protocol)
       /\ mute(RequestStart)
       /\ mute(Announce(Assistant)) /\ mute(Announce(ToolResult)) /\ mute(Announce(Terminal))
       /\ mute(Message(Internal)) /\ mute(Message(Terminal))
  <2>1. /\ TurnStart.msg = 0 /\ TurnEnd.msg = 0 /\ AgentEnd.msg = 0 /\ Protocol.msg = 0
        /\ RequestStart.msg = 0 /\ \A m : Announce(m).msg = m /\ Message(m).msg = m
    BY DEF TurnStart, TurnEnd, AgentEnd, Protocol, RequestStart, Event, Announce, Message
  <2>2. /\ 0 \notin Positive /\ Assistant \notin Positive /\ ToolResult \notin Positive
        /\ Internal \notin Positive /\ Terminal \notin Positive
    BY SMTT(30) DEF Positive, Assistant, ToolResult, Internal, Terminal
  <2>3. Len(queued) \in Nat
    BY SMTT(30) DEF DataOK
  <2> QED
    BY <2>1, <2>2, <2>3, MessageNumbers, EventsTyped, ZenonT(40)
<1> HIDE DEF mute
<1>31. ASSUME NEW e, mute(e) PROVE Mute(<<e>>)
  BY <1>31, SMTT(30) DEF Mute, mute
<1>32. ASSUME NEW e, NEW f, mute(e), mute(f) PROVE Mute(<<e, f>>)
  BY <1>32, SMTT(30) DEF Mute, mute
<1>33. ASSUME NEW e, NEW s, mute(e), s \in Seq(EventType), Mute(s)
       PROVE  Mute(<<e>> \o s) /\ <<e>> \o s \in Seq(EventType)
  <2>1. <<e>> \in Seq(EventType) /\ Len(<<e>>) = 1 /\ <<e>>[1] = e
    BY <1>33, SMTT(30) DEF mute
  <2>2. Joined(<<e>>, s)
    BY <1>33, <2>1, ConcatIndices
  <2>3. \A i \in DOMAIN (<<e>> \o s) : \/ (<<e>> \o s)[i] = e
                                       \/ i - 1 \in DOMAIN s /\ (<<e>> \o s)[i] = s[i - 1]
    BY <2>1, <2>2, SMTT(30) DEF Joined
  <2>4. <<e>> \o s \in Seq(EventType)
    BY <1>33, <2>1, ConcatParts
  <2> QED
    BY <1>33, <2>3, <2>4 DEF Mute, mute
<1>34. Mute(<<>>)
  BY SMTT(30) DEF Mute
<1>35. ASSUME NEW c
       PROVE  Mute(When(c, <<Protocol>>)) /\ Mute(When(c, <<Protocol, Message(Internal)>>))
  BY <1>30, <1>31, <1>32, <1>34, ZenonT(40) DEF When
<1>36. Mute(<<Message(Terminal), TurnEnd, AgentEnd>>)
       /\ Mute(<<TurnStart, Announce(Terminal), TurnEnd, AgentEnd>>)
  BY <1>30, SMTT(30) DEF Mute, mute
<1> DEFINE stays == /\ pc # "loop" /\ pc' # "loop"
                    /\ UNCHANGED <<steeringQueue, followUpQueue, pending>>
<1>37. ASSUME stays, Mute(out') PROVE goal
  <2>1. pending = <<>>
    BY <1>37
  <2> QED
    BY <1>37, <2>1 DEF Takes, Leaves
<1>38. ASSUME NEW started \in BOOLEAN, ProtocolFailure(started) PROVE Mute(out')
  <2> DEFINE r == <<Message(Terminal), TurnEnd, AgentEnd>>
  <2>1. out' = <<Protocol>> \o When(~started, <<TurnStart>>) \o r
    BY <1>38 DEF ProtocolFailure, Goto
  <2>2. /\ Protocol \in EventType /\ TurnStart \in EventType /\ r \in Seq(EventType) /\ Mute(r)
    BY <1>30, <1>36, SMTT(30) DEF mute
  <2> HIDE DEF r
  <2>3. <<Protocol>> \o <<>> = <<Protocol>>
    BY <2>2, SMTT(30)
  <2>4. (<<Protocol>> \o <<TurnStart>>) \o r = <<Protocol>> \o (<<TurnStart>> \o r)
    BY <2>2, SMTT(30)
  <2>5. out' = <<Protocol>> \o r \/ out' = <<Protocol>> \o (<<TurnStart>> \o r)
    BY <2>1, <2>3, <2>4 DEF When
  <2>6. Mute(<<TurnStart>> \o r) /\ <<TurnStart>> \o r \in Seq(EventType)
    BY <1>30, <1>33, <2>2
  <2> QED
    BY <1>30, <1>33, <2>2, <2>5, <2>6, ZenonT(40)
<1> HIDE DEF stays
<1>1. CASE PollInitial
  <2>1. /\ pc = "poll" /\ pc' = "loop" /\ UNCHANGED followUpQueue
        /\ \E c : out' = When(c, <<Protocol>>)
    BY <1>1 DEF PollInitial, At, Goto, outerVars
  <2>2. Drains(pending') \/ Leaves
    BY <1>1, <2>1, ZenonT(40) DEF PollInitial, SteeringPoll, Drains, Leaves
  <2> QED
    BY <1>35, <2>1, <2>2, ZenonT(40) DEF Takes
<1>2. CASE BeginTurn
  <2> DEFINE r == When(~firstTurn, <<TurnStart>>)
  <2>1. /\ pc = "loop" /\ pc' = "mode" /\ pending' = <<>>
        /\ UNCHANGED <<steeringQueue, followUpQueue>> /\ out' = r \o MessageEvents(pending)
    BY <1>2 DEF BeginTurn, At, Goto, outerVars
  <2>2. r \in Seq(EventType) /\ \A i \in DOMAIN r : r[i].type # "message" /\ r[i].msg = 0
    <3>1. /\ TurnStart \in EventType /\ TurnStart.type # "message" /\ TurnStart.msg = 0
      BY EventsTyped DEF TurnStart, Event
    <3>2. r = <<>> \/ r = <<TurnStart>>
      BY DEF When
    <3> HIDE DEF r
    <3>3. CASE r = <<>>
      BY <3>3, SMTT(30)
    <3>4. CASE r = <<TurnStart>>
      BY <3>1, <3>4, SMTT(30)
    <3> QED
      BY <3>2, <3>3, <3>4
  <2> QED
    BY <2>1, <2>2 DEF BeginsTurn
<1>3. CASE ResolveMode
  <2>1. stays /\ \E c : out' = When(c, <<Protocol>>)
    BY <1>3 DEF ResolveMode, At, Goto, outerVars, loopVars, stays
  <2> QED
    BY <1>35, <1>37, <2>1
<1>4. CASE StopAtMaxTurns
  <2>1. stays /\ ProtocolFailure(TRUE)
    BY <1>4 DEF StopAtMaxTurns, ProtocolFailure, At, Goto, outerVars, loopVars, stays
  <2> QED
    BY <1>37, <1>38, <2>1
<1>5. CASE PrepareRequest
  <2>1. stays /\ out' = <<RequestStart>>
    BY <1>5 DEF PrepareRequest, At, Goto, outerVars, loopVars, stays
  <2> QED
    BY <1>30, <1>31, <1>37, <2>1, ZenonT(40)
<1>6. CASE Request
  <2>1. stays /\ out' = <<>>
    BY <1>6 DEF Request, At, Goto, outerVars, loopVars, stays
  <2> QED
    BY <1>34, <1>37, <2>1
<1>7. ASSUME NEW r \in Responses, Respond(r) PROVE goal
  <2>1. stays /\ out' = <<Announce(Assistant)>>
    BY <1>7 DEF Respond, At, Goto, outerVars, loopVars, stays
  <2> QED
    BY <1>30, <1>31, <1>37, <2>1, ZenonT(40)
<1>8. CASE ReceiveFailure
  <2>1. stays /\ out' = <<TurnEnd, AgentEnd>>
    BY <1>8 DEF ReceiveFailure, At, Goto, outerVars, loopVars, stays
  <2> QED
    BY <1>30, <1>32, <1>37, <2>1
<1>9. CASE Receive
  <2>1. stays /\ (out' = <<>> \/ out' = <<TurnEnd>>)
    BY <1>9 DEF Receive, At, Goto, outerVars, loopVars, stays
  <2> QED
    BY <1>30, <1>31, <1>34, <1>37, <2>1, ZenonT(40)
<1>10. CASE ExecuteTools
  <2>1. stays /\ out' = <<Announce(ToolResult)>>
    BY <1>10 DEF ExecuteTools, At, Goto, outerVars, loopVars, stays
  <2> QED
    BY <1>30, <1>31, <1>37, <2>1
<1>11. CASE RecordResults
  <2>1. stays /\ out' = <<TurnEnd>>
    BY <1>11 DEF RecordResults, At, Goto, outerVars, loopVars, stays
  <2> QED
    BY <1>30, <1>31, <1>37, <2>1
<1>12. CASE RepetitiveOutput
  <2>1. stays
    BY <1>12 DEF RepetitiveOutput, ProtocolFailure, At, Goto, outerVars, loopVars, stays
  <2>2. ProtocolFailure(FALSE) \/ out' = <<Protocol, Message(Internal)>>
    BY <1>12 DEF RepetitiveOutput, Goto
  <2> QED
    BY <1>30, <1>32, <1>37, <1>38, <2>1, <2>2
<1>13. CASE ContinueAfterLength
  <2>1. stays /\ out' = <<Message(Internal)>>
    BY <1>13 DEF ContinueAfterLength, At, Goto, outerVars, loopVars, stays
  <2> QED
    BY <1>30, <1>31, <1>37, <2>1
<1>14. CASE NoLengthContinuation
  <2>1. stays /\ out' = <<>>
    BY <1>14 DEF NoLengthContinuation, At, Goto, outerVars, loopVars, stays
  <2> QED
    BY <1>34, <1>37, <2>1
<1>15. CASE TerminateRun
  <2>1. stays /\ \E c : out' = When(c, <<Protocol>>) \o <<AgentEnd>>
    BY <1>15 DEF TerminateRun, At, Goto, outerVars, loopVars, stays
  <2>2. out' = <<>> \o <<AgentEnd>> \/ out' = <<Protocol>> \o <<AgentEnd>>
    BY <2>1 DEF When
  <2>3. <<AgentEnd>> \in Seq(EventType) /\ Mute(<<AgentEnd>>)
    BY <1>30, <1>31, SMTT(30) DEF mute
  <2>4. <<>> \o <<AgentEnd>> = <<AgentEnd>>
    BY <2>3, ConcatEmptySeq
  <2> QED
    BY <1>30, <1>33, <1>37, <2>1, <2>2, <2>3, <2>4, ZenonT(40)
<1>16. CASE RecordWaitingTurn
  <2>1. stays /\ \E c : out' = When(c, <<Protocol, Message(Internal)>>)
    BY <1>16 DEF RecordWaitingTurn, At, Goto, outerVars, loopVars, stays
  <2> QED
    BY <1>35, <1>37, <2>1
<1>17. CASE NotJudged
  <2>1. stays /\ out' = <<>>
    BY <1>17 DEF NotJudged, At, Goto, outerVars, loopVars, stays
  <2> QED
    BY <1>34, <1>37, <2>1
<1>18. CASE FinishWork
  <2>1. stays /\ out' = <<Protocol, AgentEnd>>
    BY <1>18 DEF FinishWork, At, Goto, outerVars, loopVars, stays
  <2> QED
    BY <1>30, <1>32, <1>37, <2>1
<1>19. CASE JudgeTurn
  <2>1. stays
    BY <1>19 DEF JudgeTurn, ProtocolFailure, At, Goto, outerVars, loopVars, stays
  <2>2. ProtocolFailure(FALSE) \/ out' = <<>> \/ out' = <<Protocol, Message(Internal)>>
    BY <1>19 DEF JudgeTurn, Goto
  <2> QED
    BY <1>30, <1>32, <1>34, <1>37, <1>38, <2>1, <2>2, ZenonT(40)
<1>20. CASE PrepareNextTurn
  <2>1. stays /\ \E k \in Appends : out' = [i \in 1..k |-> Message(Internal)]
    BY <1>20 DEF PrepareNextTurn, At, Goto, outerVars, loopVars, stays
  <2>2. Message(Internal).msg \notin Positive
    BY <1>30 DEF mute
  <2>3. Mute(out')
    BY <2>1, <2>2 DEF Mute
  <2> QED
    BY <1>37, <2>1, <2>3
<1>21. CASE StopAborted
  <2>1. stays /\ out' = <<TurnStart, Announce(Terminal), TurnEnd, AgentEnd>>
    BY <1>21 DEF StopAborted, At, Goto, outerVars, loopVars, stays
  <2> QED
    BY <1>36, <1>37, <2>1
<1>22. CASE ShouldStopAfterTurn
  <2>1. stays /\ out' = <<AgentEnd>>
    BY <1>22, ZenonT(40) DEF ShouldStopAfterTurn, At, Goto, outerVars, loopVars, stays
  <2> QED
    BY <1>30, <1>31, <1>37, <2>1, ZenonT(40)
<1>23. CASE DoNotStop
  <2>1. stays /\ out' = <<>>
    BY <1>23 DEF DoNotStop, At, Goto, outerVars, loopVars, stays
  <2> QED
    BY <1>34, <1>37, <2>1
<1>24. CASE PollSteering
  <2>1. /\ pc = "pollSteering" /\ (pc' # "loop" => pending' = <<>>) /\ UNCHANGED followUpQueue
        /\ out' = <<>>
    BY <1>24 DEF PollSteering, At, Goto, outerVars
  <2>2. Drains(pending') \/ Leaves
    BY <1>24, <2>1 DEF PollSteering, SteeringPoll, Drains, Leaves
  <2> QED
    BY <1>34, <2>1, <2>2 DEF Takes
<1>25. CASE PollFollowUp
  <2>1. /\ pc = "pollFollowUp" /\ (pc' # "loop" => pending' = <<>>) /\ Drains(pending')
        /\ out' = <<>> \/ out' = <<AgentEnd>>
    BY <1>25 DEF PollFollowUp, At, Goto, Drains
  <2> QED
    BY <1>30, <1>31, <1>34, <2>1, ZenonT(40) DEF Takes
<1> QED
  BY <1>1, <1>2, <1>3, <1>4, <1>5, <1>6, <1>7, <1>8, <1>9, <1>10, <1>11, <1>12, <1>13, <1>14,
     <1>15, <1>16, <1>17, <1>18, <1>19, <1>20, <1>21, <1>22, <1>23, <1>24, <1>25
     DEF LoopStep

(* Each queue holds messages of its kind, in the order they were queued. *)
QueuesInv ==
  /\ \A m \in Ids(steeringQueue) : queued[m].kind = "steer"
  /\ \A m \in Ids(followUpQueue) : queued[m].kind = "followUp"
  /\ InLine(queued, Flat(steeringQueue)) /\ InLine(queued, Flat(followUpQueue))

Waiting == Ids(steeringQueue) \cup Ids(followUpQueue)

Placed == Range(delivered) \cup Carried(out) \cup Range(pending) \cup Waiting \cup cleared

(* Every queued message is at one place on its way; none overtakes another. *)
PlacesInv ==
  /\ QueuesInv
  /\ InLine(queued, pending) /\ InLine(queued, delivered) /\ OutInLine(queued, out)
  /\ pc # "loop" => pending = <<>>
  /\ Line(queued, Range(delivered), Carried(out), Range(pending), Waiting, cleared)
  /\ throws = 0 => Queued \subseteq Placed

(* The elements of a sequence. *)
LEMMA RangeSeq ==
  ASSUME NEW S, NEW s \in Seq(S)
  PROVE  Range(s) \subseteq S /\ Range(<<>>) = {}
<1>1. \A i \in DOMAIN s : s[i] \in S
  BY SeqParts
<1>2. DOMAIN <<>> = {}
  BY EmptySeq
<1> QED
  BY <1>1, <1>2 DEF Range

(* Every place holds messages that were queued; an empty one holds none. *)
LEMMA PlacesTyped ==
  ASSUME DataOK
  PROVE  /\ Range(delivered) \subseteq Queued /\ Carried(out) \subseteq Queued
         /\ Range(pending) \subseteq Queued /\ Waiting \subseteq Queued
         /\ Queued \in SUBSET Int /\ Range(<<>>) = {} /\ Carried(<<>>) = {}
<1>1. Range(delivered) \subseteq Queued /\ Range(pending) \subseteq Queued
  BY RangeSeq DEF DataOK
<1>2. Waiting \subseteq Queued
  BY IdsQueued DEF Waiting, DataOK
<1>3. Carried(out) \subseteq Queued
  <2>1. \A i \in DOMAIN out : out[i] \in EventType
    BY SeqParts DEF DataOK
  <2>2. \A i \in DOMAIN out : out[i].msg \in MessageIds \cup {0}
    BY <2>1, EventShape
  <2>3. \A m \in MessageIds \cup {0} : m \in Positive => m \in Queued
    BY MessageNumbers, SMTT(30) DEF DataOK, Positive
  <2> QED
    BY <2>2, <2>3 DEF Carried
<1>4. Queued \in SUBSET Int
  BY SMTT(30) DEF Queued, DataOK
<1>5. Range(<<>>) = {}
  BY RangeSeq DEF DataOK
<1>6. Carried(<<>>) = {}
  <2>1. DOMAIN <<>> = {}
    BY EmptySeq
  <2> QED
    BY <2>1 DEF Carried
<1> QED
  BY <1>1, <1>2, <1>3, <1>4, <1>5, <1>6, ZenonT(40)

(* What is drained, and what is left, is in order. *)
LEMMA DrainLine ==
  ASSUME DataOK, NEW g \in Seq(Seq(Queued)), NEW mode \in QueueModes, InLine(queued, Flat(g))
  PROVE  /\ Drained(mode, g) \in Seq(Queued) /\ InLine(queued, Drained(mode, g))
         /\ InLine(queued, Flat(Remaining(mode, g)))
         /\ Ids(g) = Range(Drained(mode, g)) \cup Ids(Remaining(mode, g))
         /\ Ahead(queued, Range(Drained(mode, g)), Ids(Remaining(mode, g)))
<1> DEFINE d == Drained(mode, g)
           r == Flat(Remaining(mode, g))
<1>1. d \in Seq(Queued) /\ Remaining(mode, g) \in Seq(Seq(Queued)) /\ Flat(g) = d \o r
  BY DrainSplits
<1>2. r \in Seq(Queued)
  BY <1>1, FlattenType
<1> HIDE DEF d, r
<1>3. Range(Flat(g)) = Range(d) \cup Range(r)
  BY <1>1, <1>2, RangeConcat, SMTT(30)
<1>4. InLine(queued, d) /\ InLine(queued, r) /\ Ahead(queued, Range(d), Range(r))
  BY <1>1, <1>2, SplitLine
<1> QED
  BY <1>1, <1>3, <1>4 DEF d, r, Ids

(* Draining takes messages that were queued before those it leaves. *)
LEMMA DrainPlaces ==
  ASSUME ScalarsOK, DataOK, QueuesInv, NEW d, Drains(d), UNCHANGED queued
  PROVE  /\ d \in Seq(Queued) /\ InLine(queued, d) /\ QueuesInv'
         /\ Waiting = Range(d) \cup Waiting' /\ Ahead(queued, Range(d), Waiting')
<1>1. /\ steeringQueue \in Seq(Seq(Queued)) /\ followUpQueue \in Seq(Seq(Queued))
      /\ steeringMode \in QueueModes /\ followUpMode \in QueueModes
  BY DEF ScalarsOK, DataOK
<1>2. "steer" # "followUp"
  OBVIOUS
<1>3. CASE /\ d = Drained(steeringMode, steeringQueue)
           /\ steeringQueue' = Remaining(steeringMode, steeringQueue) /\ UNCHANGED followUpQueue
  <2>1. /\ d \in Seq(Queued) /\ InLine(queued, d) /\ InLine(queued, Flat(steeringQueue'))
        /\ Ids(steeringQueue) = Range(d) \cup Ids(steeringQueue')
        /\ Ahead(queued, Range(d), Ids(steeringQueue'))
    BY <1>1, <1>3, DrainLine DEF QueuesInv
  <2>2. QueuesInv'
    BY <1>3, <2>1 DEF QueuesInv
  <2>3. Waiting' = Ids(steeringQueue') \cup Ids(followUpQueue)
    BY <1>3 DEF Waiting
  <2>4. Ahead(queued, Range(d), Ids(followUpQueue))
    BY <1>2, <2>1 DEF QueuesInv, Ahead
  <2>5. Ahead(queued, Range(d), Waiting')
    BY <2>1, <2>3, <2>4, ZenonT(40) DEF Ahead
  <2>6. Waiting = Range(d) \cup Waiting'
    BY <2>1, <2>3, ZenonT(40) DEF Waiting
  <2> QED
    BY <2>1, <2>2, <2>5, <2>6
<1>4. CASE /\ d = Drained(followUpMode, followUpQueue)
           /\ followUpQueue' = Remaining(followUpMode, followUpQueue) /\ UNCHANGED steeringQueue
  <2>1. /\ d \in Seq(Queued) /\ InLine(queued, d) /\ InLine(queued, Flat(followUpQueue'))
        /\ Ids(followUpQueue) = Range(d) \cup Ids(followUpQueue')
        /\ Ahead(queued, Range(d), Ids(followUpQueue'))
    BY <1>1, <1>4, DrainLine DEF QueuesInv
  <2>2. QueuesInv'
    BY <1>4, <2>1 DEF QueuesInv
  <2>3. Waiting' = Ids(steeringQueue) \cup Ids(followUpQueue')
    BY <1>4 DEF Waiting
  <2>4. Ahead(queued, Range(d), Ids(steeringQueue))
    BY <1>2, <2>1 DEF QueuesInv, Ahead
  <2>5. Ahead(queued, Range(d), Waiting')
    BY <2>1, <2>3, <2>4 DEF Ahead
  <2>6. Waiting = Range(d) \cup Waiting'
    BY <2>1, <2>3 DEF Waiting
  <2> QED
    BY <2>1, <2>2, <2>5, <2>6
<1> QED
  BY <1>3, <1>4 DEF Drains

(* A step of runLoop. *)
LEMMA LoopKeepsPlaces ==
  ASSUME ScalarsOK, DataOK, PlacesInv, LoopStep
  PROVE  PlacesInv'
<1>1. out = <<>> /\ UNCHANGED <<delivered, queued, cleared, throws>>
  BY LoopFrame DEF inputVars
<1>2. /\ Range(delivered) \in SUBSET Int /\ Carried(out) \in SUBSET Int
      /\ Range(pending) \in SUBSET Int /\ Waiting \in SUBSET Int
      /\ Range(<<>>) = {} /\ Carried(out) = {} /\ Queued' = Queued
  BY <1>1, PlacesTyped, SameNumbers
<1>3. /\ Line(queued, Range(delivered), Carried(out), Range(pending), Waiting, cleared)
      /\ QueuesInv /\ InLine(queued, pending) /\ InLine(queued, delivered)
  BY DEF PlacesInv
<1>4. BeginsTurn \/ Takes
  BY LoopPlaces DEF PlacesInv
<1>5. InLine(queued, <<>>)
  <2>1. DOMAIN <<>> = {}
    BY EmptySeq
  <2> QED
    BY <2>1 DEF InLine
<1>6. CASE BeginsTurn
  <2>1. /\ Carried(out') = Range(pending) /\ OutInLine(queued, out')
        /\ pending' = <<>> /\ UNCHANGED <<steeringQueue, followUpQueue>> /\ pc' = "mode"
    <3>1. PICK r \in Seq(EventType) : /\ \A i \in DOMAIN r : r[i].type # "message" /\ r[i].msg = 0
                                      /\ out' = r \o MessageEvents(pending)
      BY <1>6 DEF BeginsTurn
    <3>2. pending \in Seq(Queued)
      BY DEF DataOK
    <3>3. Carried(out') = Range(pending) /\ OutInLine(queued, out')
      BY <1>3, <3>1, <3>2, ListCarries
    <3> QED
      BY <1>6, <3>3 DEF BeginsTurn
  <2>2. Line(queued, Range(delivered), Range(pending), {}, Waiting, cleared)
    BY <1>2, <1>3, LineMoves
  <2>3. Waiting' = Waiting /\ QueuesInv'
    BY <1>1, <1>3, <2>1 DEF Waiting, QueuesInv
  <2>4. Placed' = Placed
    BY <1>1, <1>2, <2>1, <2>3 DEF Placed
  <2> QED
    BY <1>1, <1>2, <1>3, <1>5, <2>1, <2>2, <2>3, <2>4, ZenonT(40) DEF PlacesInv
<1>7. CASE Takes
  <2>1. /\ Carried(out') = {} /\ OutInLine(queued, out') /\ (pc' # "loop" => pending' = <<>>)
        /\ Drains(pending') \/ Leaves
    BY <1>7, MuteCarries DEF Takes
  <2>2. pending = <<>> /\ Range(pending) = {}
    BY <1>2, <1>7 DEF PlacesInv, Takes
  <2>3. CASE Drains(pending')
    <3>1. /\ InLine(queued, pending') /\ QueuesInv'
          /\ Waiting = Range(pending') \cup Waiting'
          /\ Ahead(queued, Range(pending'), Waiting')
      BY <1>1, <1>3, <2>3, DrainPlaces
    <3>2. Line(queued, Range(delivered), Carried(out), Range(pending'), Waiting', cleared)
      BY <1>2, <1>3, <2>2, <3>1, LineMoves
    <3>3. Placed' = Placed
      BY <1>1, <1>2, <2>1, <2>2, <3>1 DEF Placed
    <3> QED
      BY <1>1, <1>2, <1>3, <2>1, <3>1, <3>2, <3>3, ZenonT(40) DEF PlacesInv
  <2>4. CASE Leaves
    <3>1. Waiting' = Waiting /\ QueuesInv' /\ pending' = pending
      BY <1>1, <1>3, <2>2, <2>4 DEF Waiting, QueuesInv, Leaves
    <3>2. Placed' = Placed
      BY <1>1, <1>2, <2>1, <3>1 DEF Placed
    <3> QED
      BY <1>1, <1>2, <1>3, <2>1, <3>1, <3>2 DEF PlacesInv
  <2> QED
    BY <2>1, <2>3, <2>4
<1> QED
  BY <1>4, <1>6, <1>7

(* The first event is recorded: its message is delivered. *)
LEMMA ReducePlaces ==
  ASSUME DataOK, PlacesInv, out # <<>>, Reduce(Head(out))
  PROVE  /\ InLine(queued, delivered') /\ OutInLine(queued, Tail(out))
         /\ Range(delivered') \in SUBSET Int /\ Carried(Tail(out)) \in SUBSET Int
         /\ Line(queued, Range(delivered'), Carried(Tail(out)), Range(pending), Waiting, cleared)
         /\ Range(delivered) \cup Carried(out) = Range(delivered') \cup Carried(Tail(out))
<1> DEFINE n == Head(out).msg
           X == {n} \cap Positive
<1>1. out \in Seq(EventType) /\ delivered \in Seq(Queued) /\ Head(out) \in EventType
  BY HeadTail DEF DataOK
<1>2. /\ Carried(out) = X \cup Carried(Tail(out)) /\ OutInLine(queued, Tail(out))
      /\ Ahead(queued, X, Carried(Tail(out)))
  BY <1>1, TailCarries DEF PlacesInv
<1>3. n \in Int
  <2>1. n \in MessageIds \cup {0}
    BY <1>1, EventShape
  <2>2. Len(queued) \in Nat
    BY SMTT(30) DEF DataOK
  <2> QED
    BY <2>1, <2>2, MessageNumbers, SMTT(30)
<1>4. delivered' = IF n > 0 THEN Append(delivered, n) ELSE delivered
  BY DEF Reduce
<1>5. Line(queued, Range(delivered), Carried(out), Range(pending), Waiting, cleared)
      /\ InLine(queued, delivered)
  BY DEF PlacesInv
<1>6. /\ Range(delivered) \in SUBSET Int /\ Carried(out) \in SUBSET Int
      /\ Range(pending) \in SUBSET Int /\ Waiting \in SUBSET Int
  BY PlacesTyped
<1>7. Line(queued, Range(delivered) \cup X, Carried(Tail(out)), Range(pending), Waiting, cleared)
  BY <1>2, <1>5, <1>6, LineMoves, ZenonT(40)
<1>8. Range(delivered') = Range(delivered) \cup X /\ InLine(queued, delivered')
  <2>1. CASE n > 0
    <3>1. X = {n} /\ n \in Carried(out)
      <4>1. n \in Positive
        BY <1>3, <2>1, SMTT(30) DEF Positive
      <4> QED
        BY <1>2, <4>1
    <3> HIDE DEF n
    <3>2. /\ Len(delivered) \in Nat /\ DOMAIN delivered = 1..Len(delivered)
          /\ DOMAIN delivered' = 1..(Len(delivered) + 1)
          /\ \A i \in 1..Len(delivered) : delivered'[i] = delivered[i]
          /\ delivered'[Len(delivered) + 1] = n
      <4>1. n \in Queued
        BY <3>1, PlacesTyped, ZenonT(40)
      <4> QED
        BY <1>1, <1>4, <2>1, <4>1, AppendParts, SeqParts, SMTT(30)
    <3>3. /\ \A i \in DOMAIN delivered : i \in DOMAIN delivered' /\ delivered'[i] = delivered[i]
          /\ Len(delivered) + 1 \in DOMAIN delivered'
          /\ \A i \in DOMAIN delivered' : i \in DOMAIN delivered \/ i = Len(delivered) + 1
          /\ \A i \in DOMAIN delivered' : ~(Len(delivered) + 1 < i)
      BY <3>2, SMTT(30)
    <3>4. Range(delivered') = Range(delivered) \cup {n}
      BY <3>2, <3>3 DEF Range
    <3>5. \A i \in DOMAIN delivered : queued[delivered[i]].kind = queued[n].kind => delivered[i] < n
      BY <1>5, <3>1 DEF Line, Ahead, Range
    <3>6. InLine(queued, delivered')
      BY <1>5, <3>2, <3>3, <3>5, ZenonT(40) DEF InLine
    <3> QED
      BY <3>1, <3>4, <3>6
  <2>2. CASE ~(n > 0)
    <3>1. n \notin Positive
      BY <2>2, SMTT(30) DEF Positive
    <3> QED
      BY <1>4, <1>5, <2>2, <3>1, ZenonT(40)
  <2> QED
    BY <2>1, <2>2
<1>9. Range(delivered') \in SUBSET Int /\ Carried(Tail(out)) \in SUBSET Int
  BY <1>2, <1>6, <1>8
<1> QED
  BY <1>2, <1>7, <1>8, <1>9

(* An event is recorded. *)
LEMMA EmitKeepsPlaces ==
  ASSUME DataOK, PlacesInv, EmitNext
  PROVE  PlacesInv'
<1>1. /\ out # <<>> /\ Reduce(Head(out)) /\ out' = Tail(out)
      /\ UNCHANGED <<steeringQueue, followUpQueue, pc, pending, queued, cleared, throws>>
  BY DEF EmitNext, queueVars, loopVars, inputVars
<1>2. Waiting' = Waiting /\ QueuesInv' /\ Queued' = Queued
  BY <1>1, SameNumbers DEF Waiting, QueuesInv, PlacesInv
<1>3. /\ InLine(queued, delivered') /\ OutInLine(queued, out')
      /\ Line(queued, Range(delivered'), Carried(out'), Range(pending), Waiting, cleared)
      /\ Range(delivered) \cup Carried(out) = Range(delivered') \cup Carried(out')
  BY <1>1, ReducePlaces
<1>4. Placed' = Placed
  BY <1>1, <1>2, <1>3 DEF Placed
<1> QED
  BY <1>1, <1>2, <1>3, <1>4, ZenonT(40) DEF PlacesInv

(* The run is over, or fails. *)
LEMMA EndPlaces ==
  ASSUME DataOK, FinishRun \/ HandleRunFailure
  PROVE  /\ pending' = <<>> /\ Mute(out') /\ pc' # "loop"
         /\ UNCHANGED <<steeringQueue, followUpQueue, queued, cleared>>
<1>1. /\ pending' = <<>> /\ pc' # "loop"
      /\ UNCHANGED <<steeringQueue, followUpQueue, queued, cleared>>
      /\ out' = <<>> \/ out' = <<Announce(Failure), TurnEnd, AgentEnd>>
  BY DEF FinishRun, HandleRunFailure, queueVars, inputVars
<1>2. /\ Announce(Failure).msg \notin Positive /\ TurnEnd.msg \notin Positive
      /\ AgentEnd.msg \notin Positive
  BY SMTT(30) DEF Announce, Failure, TurnEnd, AgentEnd, Event, Positive
<1>3. Mute(<<>>) /\ Mute(<<Announce(Failure), TurnEnd, AgentEnd>>)
  BY <1>2, SMTT(30) DEF Mute
<1> QED
  BY <1>1, <1>3

(* The end of a run, with or without a failure: what it still carried is dropped,
   which only a failure makes happen. *)
LEMMA EndKeepsPlaces ==
  ASSUME ScalarsOK, DataOK, PlacesInv, Settle \/ Fault
  PROVE  PlacesInv'
<1>1. /\ FinishRun \/ HandleRunFailure
      /\ \/ delivered' = delivered
         \/ out # <<>> /\ Reduce(Head(out))
  BY DEF Settle, Fault, ListenerThrows, MessageStartThrows, HookThrows, RunThrows
<1>2. /\ pending' = <<>> /\ pc' # "loop" /\ Carried(out') = {} /\ OutInLine(queued, out')
      /\ UNCHANGED <<steeringQueue, followUpQueue, queued, cleared>>
  BY <1>1, EndPlaces, MuteCarries
<1>3. /\ Range(delivered) \in SUBSET Int /\ Carried(out) \in SUBSET Int
      /\ Range(pending) \in SUBSET Int /\ Waiting \in SUBSET Int
      /\ Range(<<>>) = {} /\ Carried(<<>>) = {}
  BY PlacesTyped
<1>4. InLine(queued, delivered')
      /\ Line(queued, Range(delivered'), {}, {}, Waiting, cleared)
  <2>1. CASE delivered' = delivered
    BY <1>3, <2>1, LineMoves, ZenonT(40) DEF PlacesInv
  <2>2. CASE out # <<>> /\ Reduce(Head(out))
    BY <1>3, <2>2, ReducePlaces, LineMoves
  <2> QED
    BY <1>1, <2>1, <2>2
<1>5. Waiting' = Waiting /\ QueuesInv' /\ Queued' = Queued
  BY <1>2, SameNumbers DEF Waiting, QueuesInv, PlacesInv
<1>6. InLine(queued, <<>>)
  <2>1. DOMAIN <<>> = {}
    BY EmptySeq
  <2> QED
    BY <2>1 DEF InLine
<1>7. throws' = 0 => throws = 0 /\ Placed' = Placed
  <2>1. CASE Settle
    <3>1. out = <<>> /\ pc # "loop" /\ UNCHANGED <<delivered, throws>>
      BY <2>1 DEF Settle
    <3>2. pending = <<>>
      BY <3>1 DEF PlacesInv
    <3> QED
      BY <1>2, <1>3, <1>5, <3>1, <3>2, ZenonT(40) DEF Placed
  <2>2. CASE Fault
    <3>1. throws' = throws + 1
      BY <2>2 DEF Fault, ListenerThrows, MessageStartThrows, HookThrows, RunThrows
    <3> QED
      BY <3>1, SMTT(30) DEF ScalarsOK
  <2> QED
    BY <2>1, <2>2
<1> QED
  BY <1>2, <1>3, <1>4, <1>5, <1>6, <1>7, ZenonT(40) DEF PlacesInv

(* A run starts, with the messages it continues from. *)
LEMMA StartPlaces ==
  ASSUME DataOK, Starts
  PROVE  /\ ~activeRun /\ pc' # "loop"
         /\ UNCHANGED <<messages, delivered, queued, cleared, throws, pending>>
         /\ \/ Mute(out') /\ UNCHANGED <<steeringQueue, followUpQueue>>
            \/ \E d : Drains(d) /\ out' = <<AgentStart, TurnStart>> \o Announcements(d)
<1>1. /\ ~activeRun /\ pc' # "loop"
      /\ UNCHANGED <<messages, delivered, queued, cleared, throws, pending>>
  BY DEF Starts, AgentPrompt, ContinueSteering, ContinueFollowUp, ContinueTranscript,
               StartRun, inputVars
<1>2. CASE AgentPrompt \/ ContinueTranscript
  <2>1. PICK p : /\ p = <<Prompt>> \/ p = <<>>
                 /\ out' = <<AgentStart, TurnStart>> \o Announcements(p)
                 /\ UNCHANGED <<steeringQueue, followUpQueue>>
    BY <1>2 DEF AgentPrompt, ContinueTranscript, StartRun, queueVars
  <2>2. /\ AgentStart \in EventType /\ TurnStart \in EventType
        /\ AgentStart.msg \notin Positive /\ TurnStart.msg \notin Positive
    BY EventsTyped DEF AgentStart, TurnStart, Event, Positive
  <2>3. p \in Seq(MessageIds) /\ \A i \in DOMAIN p : p[i] \notin Positive
    <3>1. Prompt \in MessageIds /\ Prompt \notin Positive
      BY SMTT(30) DEF MessageIds, Prompt, Positive
    <3>2. CASE p = <<Prompt>>
      BY <3>1, <3>2, SMTT(30)
    <3>3. CASE p = <<>>
      BY <3>3, SMTT(30)
    <3> QED
      BY <2>1, <3>2, <3>3, ZenonT(40)
  <2> DEFINE r == <<AgentStart, TurnStart>>
             s == Announcements(p)
  <2>4. r \in Seq(EventType) /\ Len(r) = 2 /\ \A i \in 1..Len(r) : r[i].msg \notin Positive
    BY <2>2, SMTT(30)
  <2>5. /\ s \in Seq(EventType) /\ Len(s) = Len(p) /\ \A i \in 1..Len(s) : s[i].msg \notin Positive
    <3>1. \A x : Announce(x).msg = x
      BY DEF Announce
    <3>2. /\ s \in Seq(EventType) /\ Len(s) = Len(p) /\ DOMAIN p = 1..Len(p)
          /\ \A i \in 1..Len(p) : s[i] = Announce(p[i])
      BY <2>3, ListsTyped, SeqParts
    <3> QED
      BY <2>3, <3>1, <3>2, ZenonT(40)
  <2> HIDE DEF r, s
  <2>6. Joined(r, s)
    BY <2>4, <2>5, ConcatIndices
  <2>7. \A i \in DOMAIN (r \o s) : \/ i \in 1..Len(r) /\ (r \o s)[i] = r[i]
                                   \/ i - Len(r) \in 1..Len(s) /\ (r \o s)[i] = s[i - Len(r)]
    BY <2>6, SMTT(30) DEF Joined
  <2>8. Mute(r \o s)
    BY <2>4, <2>5, <2>7 DEF Mute
  <2> QED
    BY <1>1, <2>1, <2>8, ZenonT(40) DEF r, s
<1>3. CASE ContinueSteering \/ ContinueFollowUp
  BY <1>1, <1>3 DEF ContinueSteering, ContinueFollowUp, StartRun, Drains
<1> QED
  BY <1>2, <1>3 DEF Starts

(* agent_start and turn_start carry no message. *)
LEMMA RunOpens ==
  /\ <<AgentStart, TurnStart>> \in Seq(EventType)
  /\ \A i \in DOMAIN <<AgentStart, TurnStart>> :
       /\ <<AgentStart, TurnStart>>[i].type # "message"
       /\ <<AgentStart, TurnStart>>[i].msg = 0
<1>1. /\ AgentStart \in EventType /\ TurnStart \in EventType
      /\ AgentStart.type # "message" /\ AgentStart.msg = 0
      /\ TurnStart.type # "message" /\ TurnStart.msg = 0
  BY EventsTyped DEF AgentStart, TurnStart, Event
<1> QED
  BY <1>1, SMTT(30)

(* A run starts, with a prompt or with what a queue held. *)
LEMMA StartKeepsPlaces ==
  ASSUME ActiveInv, ScalarsOK, DataOK, PlacesInv, Starts
  PROVE  PlacesInv'
<1>1. /\ ~activeRun /\ pc' # "loop"
      /\ UNCHANGED <<delivered, queued, cleared, throws, pending>>
      /\ \/ Mute(out') /\ UNCHANGED <<steeringQueue, followUpQueue>>
         \/ \E d : Drains(d) /\ out' = <<AgentStart, TurnStart>> \o Announcements(d)
  BY StartPlaces
<1>2. out = <<>> /\ pending = <<>>
  <2>1. pc = "idle" /\ out = <<>>
    BY <1>1 DEF ActiveInv
  <2> QED
    BY <2>1 DEF PlacesInv
<1>3. /\ Range(delivered) \in SUBSET Int /\ Carried(out) \in SUBSET Int
      /\ Range(pending) \in SUBSET Int /\ Waiting \in SUBSET Int
      /\ Range(pending) = {} /\ Carried(out) = {} /\ Queued' = Queued
  BY <1>1, <1>2, PlacesTyped, SameNumbers, ZenonT(40)
<1>4. CASE Mute(out') /\ UNCHANGED <<steeringQueue, followUpQueue>>
  <2>1. Waiting' = Waiting /\ QueuesInv'
    BY <1>1, <1>4 DEF Waiting, QueuesInv, PlacesInv
  <2>2. Carried(out') = {} /\ OutInLine(queued, out')
    BY <1>4, MuteCarries
  <2>3. Placed' = Placed
    BY <1>1, <1>3, <2>1, <2>2 DEF Placed
  <2> QED
    BY <1>1, <1>2, <1>3, <2>1, <2>2, <2>3, ZenonT(40) DEF PlacesInv
<1>5. ASSUME NEW d, Drains(d), out' = <<AgentStart, TurnStart>> \o Announcements(d)
      PROVE  PlacesInv'
  <2>1. /\ d \in Seq(Queued) /\ InLine(queued, d) /\ QueuesInv'
        /\ Waiting = Range(d) \cup Waiting' /\ Ahead(queued, Range(d), Waiting')
    BY <1>1, <1>5, DrainPlaces DEF PlacesInv
  <2>2. /\ Carried(out') = Range(d) /\ OutInLine(queued, out')
    BY <1>5, <2>1, RunOpens, ListCarries, ZenonT(40)
  <2>3. Line(queued, Range(delivered), Range(d), {}, Waiting', cleared)
    BY <1>3, <2>1, LineMoves, ZenonT(40) DEF PlacesInv
  <2>4. Placed' = Placed
    BY <1>1, <1>3, <2>1, <2>2, ZenonT(40) DEF Placed
  <2> QED
    BY <1>1, <1>2, <1>3, <2>1, <2>2, <2>3, <2>4, ZenonT(40) DEF PlacesInv
<1> QED
  BY <1>1, <1>4, <1>5

(* steer or followUp queues a group. *)
LEMMA EnqueueKeepsPlaces ==
  ASSUME DataOK, PlacesInv, NEW k \in Nat, NEW kind \in {"steer", "followUp"}, Enqueued(k, kind)
  PROVE  PlacesInv'
<1> DEFINE N == Range(NewGroup(k))
<1>1. /\ Enqueue(k, kind)
      /\ steeringQueue' = IF kind = "steer" THEN enqueueGroup(steeringQueue, NewGroup(k))
                          ELSE steeringQueue
      /\ followUpQueue' = IF kind = "steer" THEN followUpQueue
                          ELSE enqueueGroup(followUpQueue, NewGroup(k))
      /\ UNCHANGED <<pc, out, pending, delivered, cleared, throws>>
  BY DEF Enqueued, loopVars, eventVars
<1>2. /\ Len(queued) \in Nat /\ Len(queued') = Len(queued) + k
      /\ \A m \in Queued : queued'[m] = queued[m]
      /\ \A m \in Queued' \ Queued : queued'[m] = [kind |-> kind, group |-> Len(queued)]
      /\ Queued \subseteq Queued' /\ NewGroup(k) \in Seq(Queued') /\ Len(NewGroup(k)) = k
      /\ \A i \in 1..k : NewGroup(k)[i] = Len(queued) + i
  BY <1>1, EnqueueNumbers, ZenonT(40)
<1>3. DOMAIN NewGroup(k) = 1..k
  BY <1>2, SeqParts
<1>4. /\ N = Queued' \ Queued /\ \A a \in Queued, n \in N : a < n
      /\ \A n \in N : queued'[n].kind = kind
  <2>1. ASSUME NEW i \in 1..k PROVE NewGroup(k)[i] \in Queued' \ Queued
    BY <1>2, SMTT(30) DEF Queued
  <2>2. ASSUME NEW m \in Queued' \ Queued
        PROVE  m - Len(queued) \in 1..k /\ m = NewGroup(k)[m - Len(queued)]
    BY <1>2, SMTT(30) DEF Queued
  <2>3. N = Queued' \ Queued
    BY <1>3, <2>1, <2>2, ZenonT(40) DEF Range
  <2>4. \A a \in Queued, n \in Queued' \ Queued : a < n
    BY <1>2, SMTT(30) DEF Queued
  <2>5. \A n \in Queued' \ Queued : queued'[n].kind = kind
    BY <1>2, SMTT(30)
  <2> QED
    BY <2>3, <2>4, <2>5
<1>5. InLine(queued', NewGroup(k))
  <2>1. \A i, j \in 1..k : i < j => NewGroup(k)[i] < NewGroup(k)[j]
    BY <1>2, SMTT(30)
  <2> QED
    BY <1>3, <2>1, ZenonT(40) DEF InLine
<1> HIDE DEF N
<1>6. ASSUME NEW s \in Seq(Queued), InLine(queued, s) PROVE InLine(queued', s)
  <2>1. \A i \in DOMAIN s : queued'[s[i]] = queued[s[i]]
    BY <1>2, SeqParts
  <2> QED
    BY <1>6, <2>1 DEF InLine
<1>7. ASSUME NEW g \in Seq(Seq(Queued)), InLine(queued, Flat(g)),
             \A m \in Ids(g) : queued[m].kind = kind
      PROVE  LET h == enqueueGroup(g, NewGroup(k)) IN
               /\ InLine(queued', Flat(h)) /\ Ids(h) = Ids(g) \cup N
               /\ \A m \in Ids(h) : queued'[m].kind = kind
  <2>1. Flat(g) \in Seq(Queued) /\ Ids(g) \subseteq Queued
    BY FlattenType, IdsQueued
  <2>2. Flat(g) \in Seq(Queued') /\ g \in Seq(Seq(Queued'))
    <3>1. Seq(Queued) \subseteq Seq(Queued')
      BY <1>2, SeqMonotonic
    <3> QED
      BY <2>1, <3>1, SeqMonotonic
  <2>3. Flat(enqueueGroup(g, NewGroup(k))) = Flat(g) \o NewGroup(k)
    BY <1>2, <2>2, EnqueueAppends
  <2>4. Ids(enqueueGroup(g, NewGroup(k))) = Ids(g) \cup N
    BY <1>2, <2>2, <2>3, RangeConcat, ZenonT(40) DEF Ids, N
  <2>5. Ahead(queued', Range(Flat(g)), Range(NewGroup(k)))
    BY <1>4, <2>1 DEF Ahead, Ids, N
  <2>6. InLine(queued', Flat(g) \o NewGroup(k))
    <3>1. InLine(queued', Flat(g))
      BY <1>6, <1>7, <2>1
    <3> QED
      BY <1>2, <1>5, <2>2, <2>5, <3>1, JoinLine
  <2>7. \A m \in Ids(g) : queued'[m].kind = kind
    BY <1>2, <1>7, <2>1
  <2> QED
    BY <1>4, <2>3, <2>4, <2>6, <2>7, ZenonT(40)
<1>8. /\ steeringQueue \in Seq(Seq(Queued)) /\ followUpQueue \in Seq(Seq(Queued))
      /\ pending \in Seq(Queued) /\ delivered \in Seq(Queued) /\ cleared \subseteq Queued
  BY DEF DataOK
<1>9. ASSUME NEW g \in Seq(Seq(Queued)), InLine(queued, Flat(g))
      PROVE  /\ InLine(queued', Flat(g))
             /\ \A m \in Ids(g) : queued'[m] = queued[m]
  BY <1>2, <1>6, <1>9, FlattenType, IdsQueued, ZenonT(40)
<1>10. QueuesInv' /\ Waiting' = Waiting \cup N
  <2>1. CASE kind = "steer"
    <3>1. /\ steeringQueue' = enqueueGroup(steeringQueue, NewGroup(k))
          /\ followUpQueue' = followUpQueue
      BY <1>1, <2>1
    <3>2. /\ InLine(queued', Flat(steeringQueue'))
          /\ Ids(steeringQueue') = Ids(steeringQueue) \cup N
          /\ \A m \in Ids(steeringQueue') : queued'[m].kind = "steer"
      BY <1>7, <1>8, <2>1, <3>1, ZenonT(40) DEF PlacesInv, QueuesInv
    <3>3. /\ InLine(queued', Flat(followUpQueue'))
          /\ \A m \in Ids(followUpQueue') : queued'[m].kind = "followUp"
      BY <1>8, <1>9, <3>1 DEF PlacesInv, QueuesInv
    <3>4. QueuesInv'
      BY <3>2, <3>3 DEF QueuesInv
    <3>5. Waiting' = Waiting \cup N
      BY <3>1, <3>2, ZenonT(40) DEF Waiting
    <3> QED
      BY <3>4, <3>5
  <2>2. CASE kind = "followUp"
    <3>1. /\ followUpQueue' = enqueueGroup(followUpQueue, NewGroup(k))
          /\ steeringQueue' = steeringQueue
      <4>1. kind # "steer"
        BY <2>2
      <4> QED
        BY <1>1, <4>1
    <3>2. /\ InLine(queued', Flat(followUpQueue'))
          /\ Ids(followUpQueue') = Ids(followUpQueue) \cup N
          /\ \A m \in Ids(followUpQueue') : queued'[m].kind = "followUp"
      BY <1>7, <1>8, <2>2, <3>1, ZenonT(40) DEF PlacesInv, QueuesInv
    <3>3. /\ InLine(queued', Flat(steeringQueue'))
          /\ \A m \in Ids(steeringQueue') : queued'[m].kind = "steer"
      BY <1>8, <1>9, <3>1 DEF PlacesInv, QueuesInv
    <3>4. QueuesInv'
      BY <3>2, <3>3 DEF QueuesInv
    <3>5. Waiting' = Waiting \cup N
      BY <3>1, <3>2 DEF Waiting
    <3> QED
      BY <3>4, <3>5
  <2> QED
    BY <2>1, <2>2
<1>11. /\ Range(delivered) \subseteq Queued /\ Carried(out) \subseteq Queued
       /\ Range(pending) \subseteq Queued /\ Waiting \subseteq Queued
  BY PlacesTyped
<1>12. InLine(queued', pending) /\ InLine(queued', delivered)
  BY <1>6, <1>8 DEF PlacesInv
<1>13. OutInLine(queued', out)
  <2>1. \A i \in DOMAIN out : out[i].msg \in Positive => out[i].msg \in Queued
    BY <1>11 DEF Carried
  <2> QED
    BY <1>2, <2>1 DEF PlacesInv, OutInLine
<1>14. Line(queued', Range(delivered), Carried(out), Range(pending), Waiting \cup N, cleared)
  <2>1. ASSUME NEW A, NEW B, A \subseteq Queued, B \subseteq Queued, Ahead(queued, A, B)
        PROVE  Ahead(queued', A, B \cup N)
    <3>1. \A a \in A, b \in B : queued'[a] = queued[a] /\ queued'[b] = queued[b]
      BY <1>2, <2>1
    <3>2. \A a \in A, n \in N : a < n
      BY <1>4, <2>1
    <3> QED
      BY <2>1, <3>1, <3>2, ZenonT(40) DEF Ahead
  <2>2. cleared \cap N = {}
    BY <1>4, <1>8
  <2>3. /\ Ahead(queued', Range(delivered), Carried(out) \cup Range(pending) \cup Waiting \cup N)
        /\ Ahead(queued', Carried(out), Range(pending) \cup Waiting \cup N)
        /\ Ahead(queued', Range(pending), Waiting \cup N)
    <3>1. /\ Carried(out) \cup Range(pending) \cup Waiting \subseteq Queued
          /\ Range(pending) \cup Waiting \subseteq Queued
      BY <1>11
    <3> QED
      BY <1>11, <2>1, <3>1, ZenonT(40) DEF PlacesInv, Line
  <2> QED
    BY <2>2, <2>3 DEF PlacesInv, Line, Ahead
<1>15. throws = 0 => Queued' \subseteq Placed'
  <2>1. Placed' = Placed \cup N
    BY <1>1, <1>10 DEF Placed
  <2> QED
    BY <1>4, <2>1 DEF PlacesInv
<1> QED
  BY <1>1, <1>10, <1>12, <1>13, <1>14, <1>15, ZenonT(40) DEF PlacesInv

(* The queues are cleared, or nothing happens to them. *)
LEMMA QuietKeepsPlaces ==
  ASSUME DataOK, PlacesInv, Quiet
  PROVE  PlacesInv'
<1> DEFINE A == IF steeringQueue' = steeringQueue THEN {} ELSE Ids(steeringQueue)
           B == IF followUpQueue' = followUpQueue THEN {} ELSE Ids(followUpQueue)
<1>1. /\ UNCHANGED <<pc, out, pending, delivered, queued, throws>>
      /\ steeringQueue' = steeringQueue \/ steeringQueue' = <<>>
      /\ followUpQueue' = followUpQueue \/ followUpQueue' = <<>>
      /\ cleared' = cleared \cup A \cup B
  BY QuietFrame DEF loopVars
<1>2. Ids(<<>>) = {} /\ Flat(<<>>) = <<>> /\ InLine(queued, <<>>)
  <2>1. DOMAIN <<>> = {}
    BY EmptySeq
  <2> QED
    BY <2>1, FlattenEmpty DEF Ids, Range, InLine
<1>3. "steer" # "followUp"
  OBVIOUS
<1>4. QueuesInv'
  BY <1>1, <1>2 DEF PlacesInv, QueuesInv
<1>5. /\ Ids(steeringQueue) = A \cup Ids(steeringQueue') /\ A \cap Ids(steeringQueue') = {}
      /\ Ids(followUpQueue) = B \cup Ids(followUpQueue') /\ B \cap Ids(followUpQueue') = {}
  BY <1>1, <1>2
<1>6. Ids(steeringQueue) \cap Ids(followUpQueue) = {}
  BY <1>3 DEF PlacesInv, QueuesInv
<1> HIDE DEF A, B
<1>7. Waiting = (A \cup B) \cup Waiting' /\ (A \cup B) \cap Waiting' = {}
  BY <1>5, <1>6 DEF Waiting
<1>8. /\ Range(delivered) \in SUBSET Int /\ Carried(out) \in SUBSET Int
      /\ Range(pending) \in SUBSET Int /\ Waiting \in SUBSET Int /\ Queued' = Queued
  BY <1>1, PlacesTyped, SameNumbers
<1>9. Line(queued, Range(delivered), Carried(out), Range(pending), Waiting',
           cleared \cup (A \cup B))
  BY <1>7, <1>8, LineMoves DEF PlacesInv
<1>10. cleared' = cleared \cup (A \cup B)
  BY <1>1
<1>11. Placed' = Placed
  BY <1>1, <1>7, <1>10 DEF Placed
<1> QED
  BY <1>1, <1>4, <1>8, <1>9, <1>10, <1>11, ZenonT(40) DEF PlacesInv

(* Every step keeps PlacesInv, *)
LEMMA PlacesInvStep ==
  ASSUME ActiveInv, ScalarsOK, DataOK, PlacesInv, [Next]_vars
  PROVE  PlacesInv'
<1>1. CASE UNCHANGED vars
  BY <1>1 DEF vars, queueVars, loopVars, eventVars, inputVars, PlacesInv, QueuesInv,
                     Waiting, Placed, Queued
<1>2. ASSUME NEW k \in GroupSizes, Enqueued(k, "steer") \/ Enqueued(k, "followUp")
      PROVE  PlacesInv'
  <2>1. k \in Nat
    BY LoopAssumption
  <2> QED
    BY <1>2, <2>1, EnqueueKeepsPlaces
<1> QED
  BY <1>1, <1>2, StepKinds, LoopKeepsPlaces, EmitKeepsPlaces, EndKeepsPlaces,
     StartKeepsPlaces, QuietKeepsPlaces, ZenonT(40)

(* and it holds initially. *)
LEMMA PlacesInit ==
  ASSUME Init
  PROVE  PlacesInv
<1>1. /\ steeringQueue = <<>> /\ followUpQueue = <<>> /\ pending = <<>> /\ delivered = <<>>
      /\ out = <<>> /\ queued = <<>> /\ cleared = {}
  BY DEF Init
<1>2. DOMAIN <<>> = {}
  BY EmptySeq
<1>3. Ids(<<>>) = {} /\ Flat(<<>>) = <<>> /\ Range(<<>>) = {} /\ Carried(<<>>) = {}
  BY <1>2, FlattenEmpty DEF Ids, Range, Carried
<1>4. Waiting = {}
  BY <1>1, <1>3 DEF Waiting
<1>5. Queued = {}
  BY <1>1, SMTT(30) DEF Queued
<1>6. QueuesInv /\ InLine(queued, <<>>) /\ OutInLine(queued, <<>>)
  BY <1>1, <1>2, <1>3, ZenonT(40) DEF QueuesInv, InLine, OutInLine
<1>7. Line(queued, {}, {}, {}, {}, {})
  BY DEF Line, Ahead
<1> QED
  BY <1>1, <1>3, <1>4, <1>5, <1>6, <1>7, ZenonT(40) DEF PlacesInv

(* A message passed to steer or followUp is at exactly one place at any time, is
   delivered at most once, and is lost only when a listener or hook fails. *)
THEOREM QueuedOnce == Spec => []QueuedExactlyOnce
<1>1. Init => ActiveInv /\ ScalarsOK /\ DataOK /\ PlacesInv
  BY TypesInit, PlacesInit DEF Init, ActiveInv
<1>2. ActiveInv /\ ScalarsOK /\ DataOK /\ PlacesInv /\ [Next]_vars
        => (ActiveInv /\ ScalarsOK /\ DataOK /\ PlacesInv)'
  BY ActiveInvStep, TypesStep, PlacesInvStep
<1>3. ASSUME ScalarsOK, DataOK, PlacesInv PROVE QueuedExactlyOnce
  <2> DEFINE S == Ids(steeringQueue)
             F == Ids(followUpQueue)
             I == InFlight
             D == Range(delivered)
             C == cleared
             places == <<S, F, I, D, C>>
  <2>1. Waiting = S \cup F /\ S \cap F = {}
    <3>1. "steer" # "followUp"
      OBVIOUS
    <3> QED
      BY <1>3, <3>1 DEF PlacesInv, QueuesInv, Waiting
  <2>2. /\ Range(delivered) \subseteq Queued /\ Carried(out) \subseteq Queued
        /\ Range(pending) \subseteq Queued /\ Waiting \subseteq Queued /\ C \subseteq Queued
        /\ Queued \in SUBSET Int /\ Queued \subseteq Positive
    <3>1. Queued \subseteq Positive
      BY <1>3, SMTT(30) DEF DataOK, Queued, Positive
    <3>2. C \subseteq Queued
      BY <1>3 DEF DataOK
    <3> QED
      BY <1>3, <3>1, <3>2, PlacesTyped, ZenonT(40)
  <2>3. I = Range(pending) \cup Carried(out)
    BY <2>2 DEF InFlight, Carried
  <2>4. \A m \in Queued : ~(m < m)
    BY <2>2, SMTT(30)
  <2>6. /\ D \cap (Carried(out) \cup Range(pending) \cup Waiting) = {}
        /\ Carried(out) \cap (Range(pending) \cup Waiting) = {}
        /\ Range(pending) \cap Waiting = {}
        /\ C \cap (D \cup Carried(out) \cup Range(pending) \cup Waiting) = {}
    <3>1. Line(queued, Range(delivered), Carried(out), Range(pending), Waiting, cleared)
      BY <1>3 DEF PlacesInv
    <3>2. D \cap (Carried(out) \cup Range(pending) \cup Waiting) = {}
      BY <2>2, <2>4, <3>1 DEF Line, Ahead
    <3>3. Carried(out) \cap (Range(pending) \cup Waiting) = {}
      BY <2>2, <2>4, <3>1 DEF Line, Ahead
    <3>4. Range(pending) \cap Waiting = {}
      BY <2>2, <2>4, <3>1 DEF Line, Ahead
    <3>5. C \cap (D \cup Carried(out) \cup Range(pending) \cup Waiting) = {}
      BY <3>1 DEF Line
    <3> QED
      BY <3>2, <3>3, <3>4, <3>5, ZenonT(40)
  <2>7. IsInjective(delivered)
    <3> SUFFICES ASSUME NEW a \in DOMAIN delivered, NEW b \in DOMAIN delivered,
                        delivered[a] = delivered[b], a # b
                 PROVE  FALSE
      BY DEF IsInjective
    <3>1. a < b \/ b < a
      BY <1>3, SeqParts, SMTT(30) DEF DataOK
    <3>2. delivered[a] \in Queued /\ delivered[b] \in Queued
      BY <2>2 DEF Range
    <3> QED
      BY <1>3, <2>4, <3>1, <3>2, ZenonT(40) DEF PlacesInv, InLine
  <2> HIDE DEF S, F, I, D, C
  <2>8. DOMAIN places = {1, 2, 3, 4, 5}
    BY SMTT(30)
  <2>9. places[1] = S /\ places[2] = F /\ places[3] = I /\ places[4] = D /\ places[5] = C
    OBVIOUS
  <2>10. \A i, j \in DOMAIN places : i # j => places[i] \cap places[j] = {}
    <3>1. /\ S \cap F = {} /\ S \cap I = {} /\ S \cap D = {} /\ S \cap C = {}
          /\ F \cap I = {} /\ F \cap D = {} /\ F \cap C = {}
          /\ I \cap D = {} /\ I \cap C = {} /\ D \cap C = {}
      BY <2>1, <2>3, <2>6
    <3>2. /\ F \cap S = {} /\ I \cap S = {} /\ D \cap S = {} /\ C \cap S = {}
          /\ I \cap F = {} /\ D \cap F = {} /\ C \cap F = {}
          /\ D \cap I = {} /\ C \cap I = {} /\ C \cap D = {}
      BY <3>1
    <3> HIDE DEF places
    <3> SUFFICES ASSUME NEW i \in {1, 2, 3, 4, 5}, NEW j \in {1, 2, 3, 4, 5}, i # j
                 PROVE  places[i] \cap places[j] = {}
      BY <2>8, ZenonT(40)
    <3>3. CASE i = 1
      BY <2>9, <3>1, <3>3
    <3>4. CASE i = 2
      BY <2>9, <3>1, <3>2, <3>4
    <3>5. CASE i = 3
      BY <2>9, <3>1, <3>2, <3>5, ZenonT(40)
    <3>6. CASE i = 4
      BY <2>9, <3>1, <3>2, <3>6, ZenonT(40)
    <3>7. CASE i = 5
      BY <2>9, <3>2, <3>7, ZenonT(40)
    <3> QED
      BY <3>3, <3>4, <3>5, <3>6, <3>7, ZenonT(40)
  <2>11. throws = 0 => UNION Range(places) = Queued
    <3>1. Range(places) = {S, F, I, D, C}
      <4> HIDE DEF places
      <4> QED
        BY <2>8, <2>9, ZenonT(40) DEF Range
    <3>2. UNION {S, F, I, D, C} = S \cup F \cup I \cup D \cup C
      OBVIOUS
    <3>3. throws = 0 => S \cup F \cup I \cup D \cup C = Queued
      BY <1>3, <2>1, <2>2, <2>3 DEF PlacesInv, Placed, D, C
    <3> QED
      BY <3>1, <3>2, <3>3, ZenonT(40)
  <2> QED
    BY <2>7, <2>10, <2>11, ZenonT(40) DEF QueuedExactlyOnce, S, F, I, D, C
<1> QED
  BY <1>1, <1>2, <1>3, PTL DEF Spec

-----------------------------------------------------------------------------
(* Groups. *)

(* X holds every group of messages whole, or not at all. *)
Closed(q, X) == \A m \in X, n \in 1..Len(q) : q[m].group = q[n].group => n \in X

WholeGroups(q, g) == Closed(q, Ids(g)) /\ \A i \in DOMAIN g : Closed(q, Range(g[i]))

(* Positions of a transcript ms: a queued message is delivered, the rest of a group
   that is on its way will follow without a break, no group has been torn. *)
Known(ms, D) == \A i \in DOMAIN ms : ms[i] \in Positive => ms[i] \in D
Unbroken(q, ms, O) ==
  \A i \in DOMAIN ms, n \in O :
    ms[i] \in Positive /\ q[ms[i]].group = q[n].group
      => \A j \in i..Len(ms) : ms[j] \in Positive
Untorn(q, ms) ==
  \A i, k \in DOMAIN ms :
    /\ i < k /\ ms[i] \in Positive /\ ms[k] \in Positive
    /\ q[ms[i]].group = q[ms[k]].group
    => \A j \in i..k : ms[j] \in Positive

GroupsInv ==
  /\ \A m \in Queued : queued[m].group < m
  /\ WholeGroups(queued, steeringQueue) /\ WholeGroups(queued, followUpQueue)
  /\ Closed(queued, Range(pending)) /\ Pure(out)
  /\ Known(messages, Range(delivered))
  /\ Unbroken(queued, messages, Carried(out))
  /\ Untorn(queued, messages)

(* Draining a queue, by one group or whole, takes only whole groups. *)
LEMMA DrainWhole ==
  ASSUME DataOK, NEW g \in Seq(Seq(Queued)), NEW mode \in QueueModes,
         InLine(queued, Flat(g)), WholeGroups(queued, g)
  PROVE  /\ Closed(queued, Range(Drained(mode, g)))
         /\ WholeGroups(queued, Remaining(mode, g))
<1>1. Ids(<<>>) = {} /\ Range(<<>>) = {} /\ DOMAIN <<>> = {}
  <2>1. DOMAIN <<>> = {}
    BY EmptySeq
  <2> QED
    BY <2>1, FlattenEmpty DEF Ids, Range
<1>2. Closed(queued, {}) /\ WholeGroups(queued, <<>>)
  BY <1>1 DEF Closed, WholeGroups
<1>3. CASE g = <<>>
  BY <1>1, <1>2, <1>3, ZenonT(40) DEF Drained, Remaining
<1>4. CASE g # <<>> /\ mode = "all"
  BY <1>2, <1>4 DEF Drained, Remaining, WholeGroups, Ids
<1>5. CASE g # <<>> /\ mode # "all"
  <2>1. Drained(mode, g) = Head(g) /\ Remaining(mode, g) = Tail(g)
    BY <1>5 DEF Drained, Remaining
  <2>2. /\ Ids(g) = Range(Head(g)) \cup Ids(Tail(g))
        /\ Ahead(queued, Range(Head(g)), Ids(Tail(g)))
    BY <2>1, DrainLine, ZenonT(40)
  <2>3. 1 \in DOMAIN g /\ Head(g) = g[1]
        /\ \A i \in DOMAIN Tail(g) : i + 1 \in DOMAIN g /\ Tail(g)[i] = g[i + 1]
    <3>1. /\ Len(g) \in Nat \ {0} /\ DOMAIN g = 1..Len(g)
      BY <1>5, SeqParts, EmptySeq, ZenonT(40)
    <3>2. /\ Tail(g) \in Seq(Seq(Queued)) /\ Len(Tail(g)) = Len(g) - 1
          /\ \A i \in 1..Len(Tail(g)) : Tail(g)[i] = g[i + 1]
      BY <1>5, HeadTail
    <3>3. DOMAIN Tail(g) = 1..Len(Tail(g))
      BY <3>2, SeqParts
    <3> QED
      BY <3>1, <3>2, <3>3, SMTT(30)
  <2>4. /\ Closed(queued, Range(Head(g)))
        /\ \A i \in DOMAIN Tail(g) : Closed(queued, Range(Tail(g)[i]))
    BY <2>3 DEF WholeGroups
  <2>5. \A m \in Ids(g) : m \in Queued /\ ~(m < m)
    <3>1. \A m \in Queued : ~(m < m)
      BY SMTT(30) DEF Queued, DataOK
    <3> QED
      BY <3>1, IdsQueued, ZenonT(40)
  <2>6. Closed(queued, Ids(Tail(g)))
    <3> SUFFICES ASSUME NEW m \in Ids(Tail(g)), NEW n \in 1..Len(queued),
                        queued[m].group = queued[n].group, n \notin Ids(Tail(g))
                 PROVE  FALSE
      BY DEF Closed
    <3>1. n \in Range(Head(g))
      BY <2>2 DEF WholeGroups, Closed
    <3>2. m \in 1..Len(queued)
      BY <2>2, <2>5 DEF Queued
    <3>3. m \in Range(Head(g))
      BY <2>4, <3>1, <3>2, ZenonT(40) DEF Closed
    <3> QED
      BY <2>2, <2>5, <3>3, ZenonT(40) DEF Ahead
  <2> QED
    BY <2>1, <2>4, <2>6, ZenonT(40) DEF WholeGroups
<1> QED
  BY <1>3, <1>4, <1>5

(* A queue gives whole groups. *)
LEMMA DrainGroups ==
  ASSUME ScalarsOK, DataOK, QueuesInv, UNCHANGED queued, NEW d, Drains(d),
         WholeGroups(queued, steeringQueue), WholeGroups(queued, followUpQueue)
  PROVE  /\ Closed(queued, Range(d))
         /\ WholeGroups(queued, steeringQueue') /\ WholeGroups(queued, followUpQueue')
<1>1. /\ steeringQueue \in Seq(Seq(Queued)) /\ followUpQueue \in Seq(Seq(Queued))
      /\ steeringMode \in QueueModes /\ followUpMode \in QueueModes
      /\ InLine(queued, Flat(steeringQueue)) /\ InLine(queued, Flat(followUpQueue))
  BY DEF ScalarsOK, DataOK, QueuesInv
<1>2. /\ Closed(queued, Range(Drained(steeringMode, steeringQueue)))
      /\ WholeGroups(queued, Remaining(steeringMode, steeringQueue))
  BY <1>1, DrainWhole
<1>3. /\ Closed(queued, Range(Drained(followUpMode, followUpQueue)))
      /\ WholeGroups(queued, Remaining(followUpMode, followUpQueue))
  BY <1>1, DrainWhole
<1> QED
  BY <1>2, <1>3 DEF Drains

(* A group that was not delivered begins. *)
LEMMA FreshGroup ==
  ASSUME DataOK, GroupsInv, NEW X, Closed(queued, X), X \cap Range(delivered) = {}
  PROVE  Unbroken(queued, messages, X)
<1> SUFFICES ASSUME NEW i \in DOMAIN messages, NEW n \in X, messages[i] \in Positive,
                    queued[messages[i]].group = queued[n].group
             PROVE  FALSE
  BY DEF Unbroken
<1>1. messages[i] \in Range(delivered)
  BY DEF GroupsInv, Known
<1>2. messages[i] \in 1..Len(queued)
  BY <1>1, PlacesTyped DEF Queued
<1> QED
  BY <1>1, <1>2 DEF Closed

(* The first event is recorded. *)
LEMMA ReduceGroups ==
  ASSUME ScalarsOK, DataOK, GroupsInv, out # <<>>, Reduce(Head(out))
  PROVE  /\ Known(messages', Range(delivered')) /\ Pure(Tail(out))
         /\ Unbroken(queued, messages', Carried(Tail(out))) /\ Untorn(queued, messages')
<1> DEFINE e == Head(out)
           n == e.msg
<1>1. /\ e \in EventType /\ out \in Seq(EventType) /\ messages \in Seq(MessageIds)
      /\ delivered \in Seq(Queued) /\ Len(queued) \in Nat
  BY HeadTail, SeqParts DEF DataOK
<1>2. /\ messages' = IF e.type = "message" THEN Append(messages, n) ELSE messages
      /\ delivered' = IF n > 0 THEN Append(delivered, n) ELSE delivered
  BY DEF Reduce
<1>3. /\ Carried(out) = ({n} \cap Positive) \cup Carried(Tail(out))
      /\ Pure(Tail(out))
  BY <1>1, TailCarries DEF GroupsInv
<1>4. /\ n \in MessageIds \cup {0} /\ (e.type # "message" => n = 0)
      /\ e.type = "message" => n \in MessageIds
  BY <1>1, EventShape, ZenonT(40)
<1>5. n > 0 <=> n \in Positive
  BY <1>1, <1>4, MessageNumbers, SMTT(30) DEF Positive
<1>6. 0 \notin Positive
  BY DEF Positive
<1>7. /\ Known(messages, Range(delivered)) /\ Untorn(queued, messages)
      /\ Unbroken(queued, messages, Carried(out))
  BY DEF GroupsInv
<1>8. Range(delivered) \subseteq Range(delivered') /\ (n \in Positive => n \in Range(delivered'))
  <2>1. CASE n \in Positive
    <3>1. n \in Queued
      BY <1>1, <1>4, <1>5, <1>6, <2>1, MessageNumbers, ZenonT(40)
    <3>2. delivered' = Append(delivered, n)
      BY <1>2, <1>5, <2>1, ZenonT(40)
    <3> HIDE DEF n
    <3>3. /\ \A i \in DOMAIN delivered : i \in DOMAIN delivered' /\ delivered'[i] = delivered[i]
          /\ Len(delivered) + 1 \in DOMAIN delivered' /\ delivered'[Len(delivered) + 1] = n
      BY <1>1, <3>1, <3>2, AppendParts, SeqParts, SMTT(30)
    <3> QED
      BY <3>3 DEF Range
  <2>2. CASE n \notin Positive
    BY <1>2, <1>5, <2>2
  <2> QED
    BY <2>1, <2>2
<1> HIDE DEF n, e
<1>9. CASE e.type # "message"
  <2>1. messages' = messages
    BY <1>2, <1>9
  <2>2. Known(messages', Range(delivered')) /\ Untorn(queued, messages')
    BY <1>7, <1>8, <2>1, ZenonT(40) DEF Known
  <2>3. Unbroken(queued, messages', Carried(Tail(out)))
    BY <1>3, <1>7, <2>1, ZenonT(40) DEF Unbroken
  <2> QED
    BY <1>3, <2>2, <2>3, ZenonT(40)
<1>10. CASE e.type = "message"
  <2> DEFINE l == Len(messages) + 1
  <2>1. /\ Len(messages) \in Nat /\ DOMAIN messages = 1..Len(messages)
        /\ Len(messages') = l /\ DOMAIN messages' = 1..l /\ messages'[l] = n
        /\ \A i \in 1..Len(messages) : messages'[i] = messages[i]
    BY <1>1, <1>2, <1>4, <1>10, AppendParts, SeqParts, SMTT(30)
  <2>2. /\ \A i \in DOMAIN messages : /\ i \in DOMAIN messages' /\ messages'[i] = messages[i]
                                      /\ \A j \in i..Len(messages) : messages'[j] = messages[j]
                                      /\ \A j \in i..l : j = l \/ j \in i..Len(messages)
        /\ \A i \in DOMAIN messages' : i = l \/ i \in DOMAIN messages
        /\ \A i, k \in DOMAIN messages' :
             i < k => i \in DOMAIN messages /\ (k = l \/ k \in DOMAIN messages)
        /\ \A i, k \in DOMAIN messages : \A j \in i..k : j \in i..Len(messages)
        /\ \A j \in l..l : j = l
    BY <2>1, SMTT(30)
  <2> HIDE DEF l
  <2>3. Known(messages', Range(delivered'))
    BY <1>7, <1>8, <2>1, <2>2, ZenonT(40) DEF Known
  <2>4. CASE n \in Positive
    <3>1. n \in Carried(out)
      BY <1>3, <2>4
    <3>2. Untorn(queued, messages')
      <4> SUFFICES ASSUME NEW i \in DOMAIN messages', NEW k \in DOMAIN messages', i < k,
                          messages'[i] \in Positive, messages'[k] \in Positive,
                          queued[messages'[i]].group = queued[messages'[k]].group,
                          NEW j \in i..k
                   PROVE  messages'[j] \in Positive
        BY DEF Untorn
      <4>1. i \in DOMAIN messages /\ messages'[i] = messages[i]
        BY <2>2
      <4>2. CASE k = l
        <5>1. \A h \in i..Len(messages) : messages[h] \in Positive
          BY <1>7, <2>1, <3>1, <4>1, <4>2, ZenonT(40) DEF Unbroken
        <5> QED
          BY <2>1, <2>2, <2>4, <4>1, <4>2, <5>1, ZenonT(40)
      <4>3. CASE k \in DOMAIN messages
        <5>1. \A h \in i..k : messages[h] \in Positive
          BY <1>7, <2>2, <4>1, <4>3, ZenonT(40) DEF Untorn
        <5> QED
          BY <2>2, <4>1, <4>3, <5>1, ZenonT(40)
      <4> QED
        BY <2>2, <4>2, <4>3, ZenonT(40)
    <3>3. Unbroken(queued, messages', Carried(Tail(out)))
      <4> SUFFICES ASSUME NEW i \in DOMAIN messages', NEW m \in Carried(Tail(out)),
                          messages'[i] \in Positive,
                          queued[messages'[i]].group = queued[m].group,
                          NEW j \in i..Len(messages')
                   PROVE  messages'[j] \in Positive
        BY DEF Unbroken
      <4>1. CASE i = l
        BY <2>1, <2>2, <2>4, <4>1, ZenonT(40)
      <4>2. CASE i \in DOMAIN messages
        <5>1. \A h \in i..Len(messages) : messages[h] \in Positive
          BY <1>3, <1>7, <2>2, <4>2, ZenonT(40) DEF Unbroken
        <5> QED
          BY <2>1, <2>2, <2>4, <4>2, <5>1, ZenonT(40)
      <4> QED
        BY <2>2, <4>1, <4>2, ZenonT(40)
    <3> QED
      BY <1>3, <2>3, <3>2, <3>3, ZenonT(40)
  <2>5. CASE n \notin Positive
    <3>1. Carried(out) = {}
      <4>1. 1 \in DOMAIN out /\ e = out[1]
        BY <1>1, SeqParts, EmptySeq, SMTT(30) DEF e
      <4> QED
        BY <1>10, <2>5, <4>1, ZenonT(40) DEF GroupsInv, Pure, n
    <3>2. Unbroken(queued, messages', Carried(Tail(out)))
      BY <1>3, <3>1, ZenonT(40) DEF Unbroken
    <3>3. Untorn(queued, messages')
      <4> SUFFICES ASSUME NEW i \in DOMAIN messages', NEW k \in DOMAIN messages', i < k,
                          messages'[i] \in Positive, messages'[k] \in Positive,
                          queued[messages'[i]].group = queued[messages'[k]].group,
                          NEW j \in i..k
                   PROVE  messages'[j] \in Positive
        BY DEF Untorn
      <4>1. /\ i \in DOMAIN messages /\ k \in DOMAIN messages
            /\ messages'[i] = messages[i] /\ messages'[k] = messages[k]
        BY <2>1, <2>2, <2>5, ZenonT(40)
      <4>2. \A h \in i..k : messages[h] \in Positive
        BY <1>7, <4>1, ZenonT(40) DEF Untorn
      <4> QED
        BY <2>2, <4>1, <4>2, ZenonT(40)
    <3> QED
      BY <1>3, <2>3, <3>2, <3>3, ZenonT(40)
  <2> QED
    BY <2>4, <2>5, ZenonT(40)
<1> QED
  BY <1>9, <1>10

(* What was delivered is neither on its way nor waiting. *)
LEMMA DeliveredApart ==
  ASSUME DataOK, PlacesInv
  PROVE  Range(delivered) \cap (Carried(out) \cup Range(pending) \cup Waiting) = {}
<1>1. \A m \in Queued : ~(m < m)
  BY SMTT(30) DEF Queued, DataOK
<1> QED
  BY <1>1, PlacesTyped, ZenonT(40) DEF PlacesInv, Line, Ahead

(* Nothing is a whole number of groups. *)
LEMMA NoGroup == Closed(queued, {}) /\ Range(<<>>) = {} /\ WholeGroups(queued, <<>>)
<1>1. DOMAIN <<>> = {}
  BY EmptySeq
<1> QED
  BY <1>1, FlattenEmpty DEF Closed, WholeGroups, Ids, Range

(* A step of runLoop, which announces only whole groups. *)
LEMMA LoopKeepsGroups ==
  ASSUME ScalarsOK, DataOK, PlacesInv, GroupsInv, LoopStep
  PROVE  GroupsInv'
<1>1. out = <<>> /\ UNCHANGED <<messages, delivered, queued>> /\ Queued' = Queued
  BY LoopFrame, SameNumbers DEF inputVars
<1>2. BeginsTurn \/ Takes
  BY LoopPlaces DEF PlacesInv
<1>3. Closed(queued, {}) /\ Range(<<>>) = {}
  BY NoGroup
<1>4. CASE BeginsTurn
  <2>1. /\ Carried(out') = Range(pending) /\ Pure(out')
        /\ pending' = <<>> /\ UNCHANGED <<steeringQueue, followUpQueue>>
    <3>1. PICK r \in Seq(EventType) : /\ \A i \in DOMAIN r : r[i].type # "message" /\ r[i].msg = 0
                                      /\ out' = r \o MessageEvents(pending)
      BY <1>4 DEF BeginsTurn
    <3>2. pending \in Seq(Queued)
      BY DEF DataOK
    <3>3. Carried(out') = Range(pending) /\ Pure(out')
      BY <3>1, <3>2, ListCarries, ZenonT(40)
    <3> QED
      BY <1>4, <3>3 DEF BeginsTurn
  <2>2. Unbroken(queued, messages, Range(pending))
    <3>1. Range(pending) \cap Range(delivered) = {}
      BY DeliveredApart
    <3>2. Closed(queued, Range(pending))
      BY DEF GroupsInv
    <3> QED
      BY <3>1, <3>2, FreshGroup, ZenonT(40)
  <2> QED
    BY <1>1, <1>3, <2>1, <2>2, ZenonT(40) DEF GroupsInv
<1>5. CASE Takes
  <2>1. Drains(pending') \/ Leaves
    BY <1>5 DEF Takes
  <2>2. Carried(out') = {} /\ Pure(out')
    BY <1>5, MuteCarries DEF Takes
  <2>3. /\ Closed(queued, Range(pending'))
        /\ WholeGroups(queued, steeringQueue') /\ WholeGroups(queued, followUpQueue')
    <3>1. CASE Drains(pending')
      BY <1>1, <3>1, DrainGroups, ZenonT(40) DEF GroupsInv, PlacesInv
    <3>2. CASE Leaves
      BY <1>3, <3>2, ZenonT(40) DEF GroupsInv, Leaves
    <3> QED
      BY <2>1, <3>1, <3>2, ZenonT(40)
  <2>4. Unbroken(queued, messages, {})
    BY DEF Unbroken
  <2> QED
    BY <1>1, <2>2, <2>3, <2>4, ZenonT(40) DEF GroupsInv
<1> QED
  BY <1>2, <1>4, <1>5, ZenonT(40)

(* An event is recorded, and a run ends or fails. *)
LEMMA EmitKeepsGroups ==
  ASSUME ScalarsOK, DataOK, GroupsInv, EmitNext
  PROVE  GroupsInv'
<1>1. /\ out # <<>> /\ Reduce(Head(out)) /\ out' = Tail(out)
      /\ UNCHANGED <<steeringQueue, followUpQueue, pending, queued>>
  BY DEF EmitNext, queueVars, loopVars, inputVars
<1>2. Queued' = Queued
  BY <1>1, SameNumbers
<1>3. /\ Known(messages', Range(delivered')) /\ Pure(out')
      /\ Unbroken(queued, messages', Carried(out')) /\ Untorn(queued, messages')
  BY <1>1, ReduceGroups, ZenonT(40)
<1> QED
  BY <1>1, <1>2, <1>3, ZenonT(40) DEF GroupsInv

(* The end of a run, with or without a failure. *)
LEMMA EndKeepsGroups ==
  ASSUME ScalarsOK, DataOK, GroupsInv, Settle \/ Fault
  PROVE  GroupsInv'
<1>1. /\ FinishRun \/ HandleRunFailure
      /\ \/ UNCHANGED <<messages, delivered>>
         \/ out # <<>> /\ Reduce(Head(out))
  BY DEF Settle, Fault, ListenerThrows, MessageStartThrows, HookThrows, RunThrows
<1>2. /\ pending' = <<>> /\ Carried(out') = {} /\ Pure(out')
      /\ UNCHANGED <<steeringQueue, followUpQueue, queued>>
  BY <1>1, EndPlaces, MuteCarries, ZenonT(40)
<1>3. Queued' = Queued /\ Closed(queued, {}) /\ Range(<<>>) = {}
  BY <1>2, SameNumbers, NoGroup, ZenonT(40)
<1>4. Known(messages', Range(delivered')) /\ Untorn(queued, messages')
  <2>1. CASE UNCHANGED <<messages, delivered>>
    BY <2>1 DEF GroupsInv
  <2>2. CASE out # <<>> /\ Reduce(Head(out))
    BY <2>2, ReduceGroups
  <2> QED
    BY <1>1, <2>1, <2>2, ZenonT(40)
<1>5. Unbroken(queued, messages', {})
  BY DEF Unbroken
<1> QED
  BY <1>2, <1>3, <1>4, <1>5, ZenonT(40) DEF GroupsInv

(* A run starts. *)
LEMMA StartKeepsGroups ==
  ASSUME ScalarsOK, DataOK, PlacesInv, GroupsInv, Starts
  PROVE  GroupsInv'
<1>1. /\ UNCHANGED <<messages, delivered, queued, pending>>
      /\ \/ Mute(out') /\ UNCHANGED <<steeringQueue, followUpQueue>>
         \/ \E d : Drains(d) /\ out' = <<AgentStart, TurnStart>> \o Announcements(d)
  BY StartPlaces
<1>2. Queued' = Queued
  BY <1>1, SameNumbers
<1>3. CASE Mute(out') /\ UNCHANGED <<steeringQueue, followUpQueue>>
  <2>1. Carried(out') = {} /\ Pure(out')
    BY <1>3, MuteCarries
  <2>2. Unbroken(queued, messages, {})
    BY DEF Unbroken
  <2> QED
    BY <1>1, <1>2, <1>3, <2>1, <2>2, ZenonT(40) DEF GroupsInv
<1>4. ASSUME NEW d, Drains(d), out' = <<AgentStart, TurnStart>> \o Announcements(d)
      PROVE  GroupsInv'
  <2>1. d \in Seq(Queued) /\ Range(d) \subseteq Waiting
    BY <1>1, <1>4, DrainPlaces, ZenonT(40) DEF PlacesInv
  <2>2. /\ Closed(queued, Range(d))
        /\ WholeGroups(queued, steeringQueue') /\ WholeGroups(queued, followUpQueue')
    BY <1>1, <1>4, DrainGroups, ZenonT(40) DEF PlacesInv, GroupsInv
  <2>3. Carried(out') = Range(d) /\ Pure(out')
    BY <1>4, <2>1, RunOpens, ListCarries, ZenonT(40)
  <2>4. Unbroken(queued, messages, Range(d))
    <3>1. Range(d) \cap Range(delivered) = {}
      BY <2>1, DeliveredApart
    <3> QED
      BY <2>2, <3>1, FreshGroup, ZenonT(40)
  <2> QED
    BY <1>1, <1>2, <2>2, <2>3, <2>4, ZenonT(40) DEF GroupsInv
<1> QED
  BY <1>1, <1>3, <1>4, ZenonT(40)

(* The queues are cleared, or the transcript is. *)
LEMMA QuietKeepsGroups ==
  ASSUME DataOK, GroupsInv, Quiet
  PROVE  GroupsInv'
<1>1. /\ UNCHANGED <<out, pending, delivered, queued>>
      /\ messages' = messages \/ messages' = <<>>
      /\ steeringQueue' = steeringQueue \/ steeringQueue' = <<>>
      /\ followUpQueue' = followUpQueue \/ followUpQueue' = <<>>
  BY QuietFrame DEF loopVars
<1>2. Queued' = Queued
  BY <1>1, SameNumbers
<1>3. WholeGroups(queued, steeringQueue') /\ WholeGroups(queued, followUpQueue')
  BY <1>1, NoGroup DEF GroupsInv
<1>4. /\ Known(messages', Range(delivered)) /\ Untorn(queued, messages')
      /\ Unbroken(queued, messages', Carried(out))
  <2>1. DOMAIN <<>> = {}
    BY EmptySeq
  <2>2. /\ Known(<<>>, Range(delivered)) /\ Untorn(queued, <<>>)
        /\ Unbroken(queued, <<>>, Carried(out))
    BY <2>1 DEF Known, Untorn, Unbroken
  <2> QED
    BY <1>1, <2>2, ZenonT(40) DEF GroupsInv
<1> QED
  BY <1>1, <1>2, <1>3, <1>4, ZenonT(40) DEF GroupsInv

(* steer or followUp queues a group. *)
LEMMA EnqueueKeepsGroups ==
  ASSUME DataOK, GroupsInv, NEW k \in Nat, NEW kind \in {"steer", "followUp"}, Enqueued(k, kind)
  PROVE  GroupsInv'
<1> DEFINE N == Range(NewGroup(k))
<1>1. /\ Enqueue(k, kind)
      /\ \/ steeringQueue' = steeringQueue
         \/ steeringQueue' = enqueueGroup(steeringQueue, NewGroup(k))
      /\ \/ followUpQueue' = followUpQueue
         \/ followUpQueue' = enqueueGroup(followUpQueue, NewGroup(k))
      /\ UNCHANGED <<out, pending, delivered, messages>>
  BY DEF Enqueued, loopVars, eventVars
<1>2. /\ Len(queued) \in Nat /\ Len(queued') = Len(queued) + k
      /\ \A m \in Queued : queued'[m] = queued[m]
      /\ \A m \in Queued' \ Queued : queued'[m] = [kind |-> kind, group |-> Len(queued)]
      /\ Queued \subseteq Queued' /\ NewGroup(k) \in Seq(Queued') /\ Len(NewGroup(k)) = k
      /\ \A i \in 1..k : NewGroup(k)[i] = Len(queued) + i
  BY <1>1, EnqueueNumbers, ZenonT(40)
<1>3. DOMAIN NewGroup(k) = 1..k
  BY <1>2, SeqParts
<1>4. N = Queued' \ Queued
  <2>1. ASSUME NEW i \in 1..k PROVE NewGroup(k)[i] \in Queued' \ Queued
    BY <1>2, SMTT(30) DEF Queued
  <2>2. ASSUME NEW m \in Queued' \ Queued
        PROVE  m - Len(queued) \in 1..k /\ m = NewGroup(k)[m - Len(queued)]
    BY <1>2, SMTT(30) DEF Queued
  <2> QED
    BY <1>3, <2>1, <2>2 DEF Range
<1> HIDE DEF N
<1>5. /\ \A m \in Queued : queued'[m].group = queued[m].group /\ queued[m].group < m
      /\ \A m \in Queued : queued[m].group # Len(queued)
      /\ \A n \in N : queued'[n].group = Len(queued) /\ Len(queued) < n
      /\ 1..Len(queued') = Queued' /\ 1..Len(queued) = Queued
  <2>1. \A m \in Queued : queued'[m].group = queued[m].group /\ queued[m].group < m
    BY <1>2, ZenonT(40) DEF GroupsInv
  <2>2. \A m \in Queued : m <= Len(queued) /\ m \in Nat
    BY <1>2, SMTT(30) DEF Queued
  <2>3. \A m \in Queued : queued[m].group # Len(queued)
    <3>1. ASSUME NEW m \in Queued, queued[m].group = Len(queued) PROVE FALSE
      <4>1. Len(queued) < m
        BY <2>1, <3>1, ZenonT(40)
      <4> QED
        BY <1>2, <2>2, <4>1, SMTT(30)
    <3> QED
      BY <3>1, ZenonT(40)
  <2>4. \A n \in N : queued'[n].group = Len(queued)
    BY <1>2, <1>4, SMTT(30)
  <2>5. \A n \in N : Len(queued) < n
    BY <1>2, <1>4, SMTT(30) DEF Queued
  <2> QED
    BY <2>1, <2>3, <2>4, <2>5, ZenonT(40) DEF Queued
<1>6. \A m \in Queued' : queued'[m].group < m
  <2>1. \A m \in Queued' : m \in Queued \/ m \in N
    BY <1>4
  <2> QED
    BY <1>5, <2>1
<1>7. ASSUME NEW X, X \subseteq Queued, Closed(queued, X) PROVE Closed(queued', X)
  <2> SUFFICES ASSUME NEW m \in X, NEW n \in Queued', queued'[m].group = queued'[n].group
               PROVE  n \in X
    BY <1>5 DEF Closed
  <2>1. m \in Queued
    BY <1>7
  <2>2. CASE n \in Queued
    BY <1>5, <1>7, <2>1, <2>2, ZenonT(40) DEF Closed
  <2>3. CASE n \in N
    BY <1>5, <2>1, <2>3, ZenonT(40)
  <2> QED
    BY <1>4, <2>2, <2>3, ZenonT(40)
<1>8. Closed(queued', N)
  <2> SUFFICES ASSUME NEW m \in N, NEW n \in Queued',
                      queued'[m].group = queued'[n].group, n \notin N
               PROVE  FALSE
    BY <1>5 DEF Closed
  <2>1. n \in Queued
    BY <1>4
  <2> QED
    BY <1>5, <2>1
<1>9. ASSUME NEW g \in Seq(Seq(Queued)), WholeGroups(queued, g)
      PROVE  WholeGroups(queued', g) /\ WholeGroups(queued', enqueueGroup(g, NewGroup(k)))
  <2>1. Ids(g) \subseteq Queued /\ \A i \in DOMAIN g : Range(g[i]) \subseteq Queued
    <3>1. \A i \in DOMAIN g : g[i] \in Seq(Queued)
      BY SeqParts
    <3> QED
      BY <3>1, IdsQueued, RangeSeq, ZenonT(40)
  <2>2. WholeGroups(queued', g)
    BY <1>7, <1>9, <2>1, ZenonT(40) DEF WholeGroups
  <2>3. g \in Seq(Seq(Queued'))
    <3>1. Seq(Queued) \subseteq Seq(Queued')
      BY <1>2, SeqMonotonic
    <3> QED
      BY <3>1, SeqMonotonic, ZenonT(40)
  <2>4. Ids(enqueueGroup(g, NewGroup(k))) = Ids(g) \cup N
    <3>1. Flat(g) \in Seq(Queued')
      BY <2>3, FlattenType
    <3>2. Flat(enqueueGroup(g, NewGroup(k))) = Flat(g) \o NewGroup(k)
      BY <1>2, <2>3, EnqueueAppends
    <3> QED
      BY <1>2, <3>1, <3>2, RangeConcat, ZenonT(40) DEF Ids, N
  <2>5. Closed(queued', Ids(g) \cup N)
    BY <1>8, <2>2 DEF WholeGroups, Closed
  <2>6. CASE NewGroup(k) = <<>>
    BY <2>2, <2>6 DEF enqueueGroup
  <2>7. CASE NewGroup(k) # <<>>
    <3> DEFINE h == Append(g, NewGroup(k))
    <3>1. enqueueGroup(g, NewGroup(k)) = h
      BY <2>7 DEF enqueueGroup
    <3>2. \A i \in DOMAIN h : h[i] = NewGroup(k) \/ (i \in DOMAIN g /\ h[i] = g[i])
      <4>1. /\ DOMAIN h = 1..(Len(g) + 1) /\ h[Len(g) + 1] = NewGroup(k)
            /\ \A i \in 1..Len(g) : h[i] = g[i]
        BY <1>2, <2>3, AppendParts, SMTT(30)
      <4>2. Len(g) \in Nat /\ DOMAIN g = 1..Len(g)
        BY SeqParts
      <4> HIDE DEF h
      <4> QED
        BY <4>1, <4>2, SMTT(30)
    <3> HIDE DEF h
    <3>3. \A i \in DOMAIN h : Closed(queued', Range(h[i]))
      BY <1>8, <2>2, <3>2, ZenonT(40) DEF WholeGroups, N
    <3> QED
      BY <2>2, <2>4, <2>5, <3>1, <3>3, ZenonT(40) DEF WholeGroups
  <2> QED
    BY <2>2, <2>6, <2>7, ZenonT(40)
<1>10. WholeGroups(queued', steeringQueue') /\ WholeGroups(queued', followUpQueue')
  BY <1>1, <1>9, ZenonT(40) DEF DataOK, GroupsInv
<1>11. Closed(queued', Range(pending))
  BY <1>7, PlacesTyped, ZenonT(40) DEF GroupsInv
<1>12. \A i \in DOMAIN messages : messages[i] \in Positive => messages[i] \in Queued
  BY PlacesTyped DEF GroupsInv, Known
<1>13. Untorn(queued', messages)
  BY <1>5, <1>12 DEF GroupsInv, Untorn
<1>14. Unbroken(queued', messages, Carried(out))
  <2>1. \A n \in Carried(out) : n \in Queued
    BY PlacesTyped
  <2> QED
    BY <1>5, <1>12, <2>1, ZenonT(40) DEF GroupsInv, Unbroken
<1> QED
  BY <1>1, <1>6, <1>10, <1>11, <1>13, <1>14, ZenonT(40) DEF GroupsInv

(* Every step keeps GroupsInv. *)
LEMMA GroupsInvStep ==
  ASSUME ScalarsOK, DataOK, PlacesInv, GroupsInv, [Next]_vars
  PROVE  GroupsInv'
<1>1. CASE UNCHANGED vars
  BY <1>1, ZenonT(40) DEF vars, queueVars, loopVars, eventVars, inputVars, GroupsInv, Queued
<1>2. ASSUME NEW k \in GroupSizes, Enqueued(k, "steer") \/ Enqueued(k, "followUp")
      PROVE  GroupsInv'
  <2>1. k \in Nat
    BY LoopAssumption
  <2> QED
    BY <1>2, <2>1, EnqueueKeepsGroups, ZenonT(40)
<1> QED
  BY <1>1, <1>2, StepKinds, LoopKeepsGroups, EmitKeepsGroups, EndKeepsGroups,
     StartKeepsGroups, QuietKeepsGroups, ZenonT(40)

(* The messages of one queue enter the transcript in the order they were queued, and
   nothing comes between two messages of one group. *)
THEOREM OrderKept == Spec => []DeliveredInOrder
<1>1. Init => ActiveInv /\ ScalarsOK /\ DataOK /\ PlacesInv /\ GroupsInv
  <2> SUFFICES ASSUME Init PROVE ActiveInv /\ ScalarsOK /\ DataOK /\ PlacesInv /\ GroupsInv
    OBVIOUS
  <2>1. /\ messages = <<>> /\ steeringQueue = <<>> /\ followUpQueue = <<>> /\ out = <<>>
        /\ pending = <<>> /\ ActiveInv
    BY DEF Init, ActiveInv
  <2>2. Queued = {}
    BY SMTT(30) DEF Init, Queued
  <2>3. DOMAIN <<>> = {}
    BY EmptySeq
  <2>4. Pure(<<>>) /\ Known(<<>>, Range(delivered)) /\ Untorn(queued, <<>>)
        /\ Unbroken(queued, <<>>, Carried(out))
    BY <2>3 DEF Pure, Known, Untorn, Unbroken
  <2>5. GroupsInv
    BY <2>1, <2>2, <2>4, NoGroup, ZenonT(40) DEF GroupsInv
  <2> QED
    BY <2>1, <2>5, TypesInit, PlacesInit, ZenonT(40)
<1>2. ActiveInv /\ ScalarsOK /\ DataOK /\ PlacesInv /\ GroupsInv /\ [Next]_vars
        => (ActiveInv /\ ScalarsOK /\ DataOK /\ PlacesInv /\ GroupsInv)'
  BY ActiveInvStep, TypesStep, PlacesInvStep, GroupsInvStep, ZenonT(40)
<1>3. ASSUME DataOK, PlacesInv, GroupsInv PROVE DeliveredInOrder
  <2>1. /\ Len(messages) \in Nat /\ DOMAIN messages = 1..Len(messages)
        /\ \A i \in DOMAIN messages : messages[i] \in MessageIds
    BY <1>3, SeqParts, ZenonT(40) DEF DataOK
  <2>2. \A i \in DOMAIN messages : messages[i] > 0 <=> messages[i] \in Positive
    <3>1. \A m \in MessageIds : m > 0 <=> m \in Positive
      BY <1>3, MessageNumbers, SMTT(30) DEF DataOK, Positive
    <3> QED
      BY <2>1, <3>1, ZenonT(40)
  <2>3. \A i, k \in DOMAIN messages : \A j \in i..k : j \in DOMAIN messages
    BY <2>1, SMTT(30)
  <2>4. ASSUME NEW i \in DOMAIN messages, NEW k \in DOMAIN messages, i < k,
               messages[i] > 0, messages[k] > 0,
               queued[messages[i]].group = queued[messages[k]].group,
               NEW j \in i..k
        PROVE  messages[j] > 0
    BY <1>3, <2>2, <2>3, <2>4, ZenonT(40) DEF GroupsInv, Untorn
  <2>5. InLine(queued, delivered)
    BY <1>3 DEF PlacesInv
  <2> QED
    BY <2>4, <2>5, ZenonT(40) DEF DeliveredInOrder, InLine
<1> QED
  BY <1>1, <1>2, <1>3, PTL DEF Spec

==============================================================================
