------------------------- MODULE PendingMessageQueue -------------------------
(***************************************************************************)
(* PendingMessageQueue of packages/agent/src/agent: a queue of groups of   *)
(* messages, drained whole ("all") or one group at a time.                 *)
(***************************************************************************)
EXTENDS Integers, Sequences, Functions

QueueModes == {"all", "one-at-a-time"}

(* mutant: a group is split into its messages *)
BugSplitGroup(groups, messages) ==
  groups \o [i \in 1..Len(messages) |-> <<messages[i]>>]

enqueueGroup(groups, messages) ==
  IF messages = <<>> THEN groups ELSE Append(groups, messages)

(* groups.flat(). *)
Flat(groups) ==
  IF groups = <<>> THEN <<>>
  ELSE LET joined[i \in 1..Len(groups)] ==
             IF i = 1 THEN groups[i] ELSE joined[i - 1] \o groups[i]
       IN joined[Len(groups)]

(* What drain returns, and the groups it leaves behind. *)
Drained(mode, groups) ==
  IF groups = <<>> THEN <<>>
  ELSE IF mode = "all" THEN Flat(groups) ELSE Head(groups)

(* mutant: one-at-a-time drops the groups it does not return *)
BugDropRest(mode, groups) == <<>>

Remaining(mode, groups) ==
  IF groups = <<>> \/ mode = "all" THEN <<>> ELSE Tail(groups)
=============================================================================
