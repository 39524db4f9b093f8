--------------------------- MODULE HarnessSession ---------------------------
(***************************************************************************)
(* The session tree of packages/agent/src/harness/session: Session         *)
(* (session.ts) over JsonlSessionStorage (jsonl-storage.ts).  A session is *)
(* an append-only file of entries, each naming its parent, and a copy of   *)
(* them in memory with the id of the active leaf.  A writer is one call of *)
(* append* or moveTo; calls that are not awaited by one another interleave *)
(* at every await.  The header line, labels and the contents of the        *)
(* entries are left out.                                                   *)
(***************************************************************************)
EXTENDS Integers, Sequences, FiniteSets, FiniteSetsExt, Functions

CONSTANTS
  Writers,       \* calls that may be in flight together
  Torn,          \* whether the file system may leave half a line behind
  MaxLines,      \* bound on the lines of the file
  MaxWindows,    \* bound on the clock
  MaxCrashes     \* bound on the restarts of the process

ASSUME SessionAssumption ==
  /\ IsFiniteSet(Writers)
  /\ Torn \in BOOLEAN
  /\ MaxLines \in Nat /\ MaxWindows \in Nat /\ MaxCrashes \in Nat

VARIABLES
  lines,     \* the file: [entry, ok]; ok is "the line is valid JSON"
  eol,       \* whether the last line of the file ends with a newline
  open,      \* whether a process has the session open
  entries,   \* this.entries; this.byId is derived from it
  leaf,      \* this.currentLeafId
  op,        \* the call each writer is executing
  window,    \* the clock, in units of the 8 leading digits of a uuidv7
  crashes,
  overlapped \* whether a call was ever made while another was in flight

fileVars == <<lines, eol>>
memoryVars == <<entries, leaf>>
vars == <<lines, eol, open, entries, leaf, op, window, crashes, overlapped>>

-----------------------------------------------------------------------------
(* Entries and identifiers *)

None == 0

(* The entry types that the tree tells apart: "message" stands for every
   entry that only extends the branch.  ref is the targetId of a leaf entry
   and the firstKeptEntryId of a compaction. *)
Types == {"message", "compaction", "leaf", "branch_summary"}

Entry(id, parent, type, ref) ==
  [id |-> id, parent |-> parent, type |-> type, ref |-> ref]

Ids(es) == {es[i].id : i \in DOMAIN es}

UsedIds ==
  Ids(entries) \cup {lines[i].entry.id : i \in DOMAIN lines}
               \cup {op[w].entry.id : w \in Writers}

(* uuidv7().slice(0, 8) is the high 32 bits of the millisecond clock: the
   same value for 65 seconds.  The full uuid is random: one nobody has.  A
   short id is odd, a full one even. *)
ShortId == 2 * window + 1
FullId == Min({2 * k : k \in 1..(Cardinality(UsedIds) + 1)} \ UsedIds)

(* mutant: the short id is returned without looking it up in byId *)
BugIdUnchecked == ShortId

generateEntryId == IF ShortId \in Ids(entries) THEN FullId ELSE ShortId

(* this.byId.get(id): the last entry pushed under that id *)
ById(es, id) == es[Max({i \in DOMAIN es : es[i].id = id})]

leafIdAfterEntry(e) == IF e.type = "leaf" THEN e.ref ELSE e.id

Known(es, id) == id = None \/ id \in Ids(es)

(* getPathToRoot: the ids met after n steps up, None beyond the root and for
   a parent that is not found. *)
PathToRoot(es, id) ==
  LET path[n \in 0..Len(es)] ==
        IF n = 0 THEN id
        ELSE IF path[n - 1] \in Ids(es) THEN ById(es, path[n - 1]).parent
        ELSE None
  IN  path

OnPath(es, id) == Range(PathToRoot(es, id)) \ {None}

(* loadJsonlStorage *)
AllValid == \A i \in DOMAIN lines : lines[i].ok
LoadedEntries == [i \in DOMAIN lines |-> lines[i].entry]
LeafOf(es) == IF es = <<>> THEN None ELSE leafIdAfterEntry(es[Len(es)])
-----------------------------------------------------------------------------
(* Session: one call *)

NoOp == [pc |-> "idle", entry |-> Entry(None, None, "message", None),
         summary |-> FALSE]

Init ==
  /\ lines = <<>> /\ eol = TRUE
  /\ open = TRUE
  /\ entries = <<>> /\ leaf = None
  /\ op = [w \in Writers |-> NoOp]
  /\ window = 0 /\ crashes = 0 /\ overlapped = FALSE

Starts(w) ==
  /\ open
  /\ op[w].pc = "idle"
  /\ Len(lines) + Cardinality({v \in Writers : op[v].pc # "idle"}) < MaxLines
  /\ overlapped' = (overlapped \/ \E v \in Writers : op[v].pc # "idle")

(* append*: the id is created first, the leaf is read after an await.  A
   compaction keeps an entry of the branch it was prepared from. *)
AppendStart(w, type) ==
  /\ Starts(w)
  /\ \E ref \in IF type = "compaction" THEN OnPath(entries, leaf) ELSE {None} :
       op' = [op EXCEPT ![w] = [pc |-> "leaf", summary |-> FALSE,
                entry |-> Entry(generateEntryId, None, type, ref)]]
  /\ UNCHANGED <<fileVars, open, memoryVars, window, crashes>>

(* getLeafId throws for an unknown leaf; TreeSound says there is none. *)
ReadLeaf(w) ==
  /\ op[w].pc = "leaf"
  /\ op' = [op EXCEPT ![w].pc = "write", ![w].entry.parent = leaf]
  /\ UNCHANGED <<fileVars, open, memoryVars, window, crashes, overlapped>>

(* moveTo and setLeafId: the id and the parent of the leaf entry are taken
   in one step. *)
MoveTo(w, summary) ==
  /\ Starts(w)
  /\ \E target \in Ids(entries) \cup {None} :
       op' = [op EXCEPT ![w] = [pc |-> "write", summary |-> summary,
                entry |-> Entry(generateEntryId, leaf, "leaf", target)]]
  /\ UNCHANGED <<fileVars, open, memoryVars, window, crashes>>

(* moveTo appends the branch summary below the entry it moved to, whatever
   the leaf has become since. *)
AppendSummary(w) ==
  /\ op[w].pc = "summary"
  /\ op' = [op EXCEPT ![w] = [pc |-> "write", summary |-> FALSE,
              entry |-> Entry(generateEntryId, op[w].entry.ref, "branch_summary", None)]]
  /\ UNCHANGED <<fileVars, open, memoryVars, window, crashes, overlapped>>
-----------------------------------------------------------------------------
(* JsonlSessionStorage: fs.appendFile, then the memory *)

(* A line written after an unterminated one becomes part of it. *)
WithLine(e, ok) ==
  IF eol THEN Append(lines, [entry |-> e, ok |-> ok])
  ELSE [lines EXCEPT ![Len(lines)].ok = FALSE]

(* mutant: the memory is updated and the file written afterwards *)
BugMemoryFirst(w) ==
  /\ op[w].pc = "write"
  /\ op' = [op EXCEPT ![w] = NoOp]
  /\ entries' = Append(entries, op[w].entry)
  /\ leaf' = leafIdAfterEntry(op[w].entry)
  /\ UNCHANGED <<fileVars, open, window, crashes, overlapped>>

WriteLine(w) ==
  /\ op[w].pc = "write"
  /\ lines' = WithLine(op[w].entry, TRUE)
  /\ eol' = TRUE
  /\ op' = [op EXCEPT ![w].pc = "commit"]
  /\ UNCHANGED <<open, memoryVars, window, crashes, overlapped>>

(* appendFile rejects: nothing was written and the call throws. *)
WriteFails(w) ==
  /\ op[w].pc = "write"
  /\ op' = [op EXCEPT ![w] = NoOp]
  /\ UNCHANGED <<fileVars, open, memoryVars, window, crashes, overlapped>>

(* Part of the line, or all of it but the newline, reaches the file. *)
TearLine(w) ==
  /\ Torn
  /\ op[w].pc = "write"
  /\ \E ok \in BOOLEAN : lines' = WithLine(op[w].entry, ok)
  /\ eol' = FALSE

WriteTears(w) ==
  /\ TearLine(w)
  /\ op' = [op EXCEPT ![w] = NoOp]
  /\ UNCHANGED <<open, memoryVars, window, crashes, overlapped>>

Commit(w) ==
  /\ op[w].pc = "commit"
  /\ entries' = Append(entries, op[w].entry)
  /\ leaf' = leafIdAfterEntry(op[w].entry)
  /\ op' = IF op[w].summary THEN [op EXCEPT ![w].pc = "summary"]
           ELSE [op EXCEPT ![w] = NoOp]
  /\ UNCHANGED <<fileVars, open, window, crashes, overlapped>>
-----------------------------------------------------------------------------
(* The process and its clock *)

Stopped ==
  /\ open /\ crashes < MaxCrashes
  /\ open' = FALSE
  /\ crashes' = crashes + 1
  /\ op' = [w \in Writers |-> NoOp]
  /\ entries' = <<>> /\ leaf' = None
  /\ UNCHANGED <<window, overlapped>>

Crash == Stopped /\ UNCHANGED fileVars

CrashWhileWriting(w) == Stopped /\ TearLine(w)

(* mutant: the last line is dropped *)
BugDropLastLine ==
  /\ ~open
  /\ AllValid
  /\ open' = TRUE
  /\ entries' = IF lines = <<>> THEN <<>> ELSE SubSeq(LoadedEntries, 1, Len(lines) - 1)
  /\ leaf' = LeafOf(entries')
  /\ UNCHANGED <<fileVars, op, window, crashes, overlapped>>

(* JsonlSessionStorage.open: one invalid line and the session does not open *)
Open ==
  /\ ~open
  /\ AllValid
  /\ open' = TRUE
  /\ entries' = LoadedEntries
  /\ leaf' = LeafOf(LoadedEntries)
  /\ UNCHANGED <<fileVars, op, window, crashes, overlapped>>

Tick ==
  /\ window < MaxWindows
  /\ window' = window + 1
  /\ UNCHANGED <<fileVars, open, memoryVars, op, crashes, overlapped>>

Call(w) ==
  \/ AppendStart(w, "message") \/ AppendStart(w, "compaction")
  \/ MoveTo(w, FALSE) \/ MoveTo(w, TRUE)

Step(w) ==
  \/ ReadLeaf(w) \/ AppendSummary(w)
  \/ WriteLine(w) \/ WriteFails(w) \/ WriteTears(w)
  \/ Commit(w)

Next ==
  \/ \E w \in Writers : Call(w) \/ Step(w) \/ CrashWhileWriting(w)
  \/ Crash \/ Open \/ Tick

Spec == Init /\ [][Next]_vars
-----------------------------------------------------------------------------
(* Properties *)

EntryType == [id : Nat, parent : Nat, type : Types, ref : Nat]
LineType == [entry : EntryType, ok : BOOLEAN]
OpType == [pc : {"idle", "leaf", "write", "commit", "summary"},
           entry : EntryType, summary : BOOLEAN]

(* Every variable has its type; a closed session holds nothing in memory. *)
TypeOK ==
  /\ lines \in Seq(LineType)
  /\ eol \in BOOLEAN /\ open \in BOOLEAN
  /\ entries \in Seq(EntryType)
  /\ leaf \in Nat
  /\ op \in [Writers -> OpType]
  /\ window \in Nat /\ crashes \in Nat /\ overlapped \in BOOLEAN
  /\ ~open => entries = <<>> /\ leaf = None

(* Unless a torn line has made the file unreadable, an entry that a caller was
   told of is in the file: appendEntry writes the file before the memory. *)
MemoryDurable ==
  AllValid => \A i \in DOMAIN entries : entries[i] \in Range(LoadedEntries)

RefersBack ==
  /\ Known(entries, leaf)
  /\ AllValid => \A j \in DOMAIN lines :
       \A r \in {lines[j].entry.parent, lines[j].entry.ref} \ {None} :
         \E i \in 1..(j - 1) : lines[i].entry.id = r

PathsEnd == \A id \in Ids(entries) : PathToRoot(entries, id)[Len(entries)] = None

KeptOnPath ==
  \A i \in DOMAIN entries :
    entries[i].type = "compaction" => entries[i].ref \in OnPath(entries, entries[i].id)

(* The session is a tree.  Whatever calls overlap, no reference dangles: the
   leaf is an entry, so that getLeafId never throws, and in a readable file an
   entry comes after its parent and after the one a leaf entry moves to.  When
   calls do not overlap, getPathToRoot ends at the root from every entry,
   although ids are cut from a clock, and the entry a compaction keeps from is
   on the compaction's path, where buildSessionContext looks for it. *)
TreeSound == RefersBack /\ (~overlapped => PathsEnd /\ KeptOnPath)

Quiet == \A w \in Writers : op[w].pc # "commit"

(* When calls do not overlap, the memory is what a reopen of the file gives:
   the same entries in the same order, and the same leaf, so that a move in
   the tree survives the reopen. *)
MemoryIsFile ==
  ~overlapped /\ open /\ eol /\ AllValid /\ Quiet =>
    entries = LoadedEntries /\ leaf = LeafOf(LoadedEntries)
=============================================================================
