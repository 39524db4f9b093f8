---------------------------- MODULE SessionManager ----------------------------
(***************************************************************************)
(* The session files of the coding agent (packages/coding-agent/src/core/  *)
(* session-manager): a session is a tree of entries, kept in memory and,   *)
(* from the first answer of the model on, in a file of one line per entry. *)
(* Every call is synchronous, so nothing interleaves with it; but each of  *)
(* its file operations may fail, and the process may be killed or the      *)
(* machine lose power between two of them.                                 *)
(*                                                                         *)
(* A line is a record.  The name of a file leads to some content; `data'   *)
(* holds what that content may be after a power loss, `old' what the name  *)
(* itself may lead to instead while its directory is not synced.           *)
(***************************************************************************)
EXTENDS Integers, Sequences, FiniteSetsExt

CONSTANTS
  Files,        \* names of session files
  FirstContents,\* what a file may hold that another program left
  MaxEntries,   \* entries made by calls
  MaxFailures,  \* file operations that fail
  MaxCrashes    \* kills and power losses

VARIABLES
  live,      \* what each name leads to
  data,      \* what the file behind the name may hold after a power loss
  old,       \* what else the name may lead to after a power loss
  cur,       \* sessionFile
  entries,   \* fileEntries without the header
  leaf,      \* leafId, 0 for null
  flushed,   \* flushed
  err,       \* persistenceError is set
  job,       \* the write under way
  next,      \* the next fresh id
  failures, crashes,
  acked,     \* per file: entries whose write was reported to have succeeded
  unsynced   \* files that got their name in a call that did not sync the directory

vars == <<live, data, old, cur, entries, leaf, flushed, err, job, next,
          failures, crashes, acked, unsynced>>
memory == <<cur, entries, leaf, flushed, err>>
disk == <<live, data, old>>
count == <<next, failures, crashes>>

Line(kind, id, parent, of) == [kind |-> kind, id |-> id, parent |-> parent, of |-> of]
Header == Line("session", 0, 0, 0)
Torn == Line("torn", 0, 0, 0)      \* text without a newline behind it
Bad == Line("bad", 0, 0, 0)        \* a line that is no entry
Absent == <<Line("absent", 0, 0, 0)>>

Damaged(line) == line.kind \in {"torn", "bad"}
Ids(s) == {s[i].id : i \in DOMAIN s} \ {0}
Survivors(f) == data[f] \cup old[f]

-----------------------------------------------------------------------------
(* Reading. *)

(* Complete lines up to the first malformed one; text behind the last newline
   is dropped. *)
Readable(c) ==
  LET damage == {i \in DOMAIN c : Damaged(c[i])}
  IN  IF damage = {} THEN c ELSE SubSeq(c, 1, Min(damage) - 1)

(* The entries of a file with its header, and nothing for a file without. *)
loadEntriesFromFile(c) ==
  LET r == Readable(c) IN IF r # <<>> /\ r[1] = Header THEN r ELSE <<>>

Entries(c) == LET s == loadEntriesFromFile(c) IN IF s = <<>> THEN s ELSE Tail(s)

LastId(s) == IF s = <<>> THEN 0 ELSE s[Len(s)].id

HasAssistant(s) == \E i \in DOMAIN s : s[i].kind = "assistant"

(* getBranch: the entries from the root to id.  Parents precede children. *)
getBranch(s, id) ==
  LET up[n \in 0..Len(s)] ==
        IF n = 0 THEN {id}
        ELSE up[n - 1] \cup {s[i].parent : i \in {j \in DOMAIN s : s[j].id \in up[n - 1]}}
  IN  SelectSeq(s, LAMBDA line : line.id \in up[Len(s)])

-----------------------------------------------------------------------------
NoJob == [mode |-> "none", step |-> "none", file |-> cur, content |-> <<>>, undo |-> 0]

Init ==
  /\ \E f \in Files, c \in FirstContents \cup {Absent} :
       live = [g \in Files |-> IF g = f THEN c ELSE Absent]
  /\ data = [f \in Files |-> {live[f]}]
  /\ old = [f \in Files |-> {}]
  /\ cur \in Files
  /\ entries = <<>> /\ leaf = 0 /\ flushed = FALSE /\ err = FALSE
  /\ job = [NoJob EXCEPT !.mode = "closed"]
  /\ next = 1 + Max({0} \cup UNION {Ids(live[f]) : f \in Files})
  /\ failures = 0 /\ crashes = 0
  /\ acked = [f \in Files |-> Ids(Entries(live[f]))]
  /\ unsynced = {}

Idle == job.mode = "none"

(* The manager has no error and no call is under way. *)
Settled == Idle /\ ~err

Write(mode, step, f, content, undo) ==
  job' = [mode |-> mode, step |-> step, file |-> f, content |-> content, undo |-> undo]

newSession(f) ==
  /\ cur' = f /\ entries' = <<>> /\ leaf' = 0 /\ flushed' = FALSE /\ err' = FALSE
  /\ job' = [NoJob EXCEPT !.file = f]

loaded(f, s) ==
  /\ cur' = f /\ entries' = s /\ leaf' = LastId(s) /\ flushed' = TRUE /\ err' = FALSE
  /\ job' = [NoJob EXCEPT !.file = f]

(* A file that does not exist is made with the first answer; a file without a
   header is set aside and started anew; a damaged one is set aside or cut and
   rewritten; any other is taken as it is. *)
setSessionFile(f) ==
  /\ job.mode = "closed"
  /\ LET s == loadEntriesFromFile(live[f])
     IN  \/ live[f] = Absent /\ newSession(f)
         \/ /\ live[f] # Absent /\ s = <<>>
            /\ Write("open", "publish", f, <<Header>>, 0)
            /\ UNCHANGED memory
         \/ /\ s # <<>> /\ s # live[f]
            /\ Write("open", "publish", f, s, 0)
            /\ UNCHANGED memory
         \/ s # <<>> /\ s = live[f] /\ loaded(f, Tail(s))
  /\ UNCHANGED <<disk, count, acked, unsynced>>

Unused(f) == live[f] = Absent /\ acked[f] = {} /\ (f = cur => job.mode = "closed")

(* newSession on a manager in use, and SessionManager.create: another file. *)
NewSession(f) ==
  /\ job.mode \in {"none", "closed"} /\ Unused(f)
  /\ newSession(f)
  /\ UNCHANGED <<disk, count, acked, unsynced>>

-----------------------------------------------------------------------------
(* branch, resetLeaf *)
branch(id) ==
  /\ Idle /\ id \in Ids(entries) \cup {0}
  /\ leaf' = id
  /\ UNCHANGED <<disk, cur, entries, flushed, err, job, count, acked, unsynced>>

(* mutant: the file is made with the line of the answer only *)
BugFirstWrite(s) == <<Header>> \o SubSeq(s, Len(s), Len(s))

fileContent(s) == <<Header>> \o s

(* Nothing is written before the first answer, then every entry so far, then
   one line per entry. *)
persist(line) ==
  LET s == Append(entries, line)
  IN  \/ /\ ~flushed /\ ~HasAssistant(s)
         /\ UNCHANGED job
      \/ /\ ~flushed /\ HasAssistant(s)
         /\ Write("first", "publish", cur, fileContent(s), line.parent)
      \/ /\ flushed
         /\ Write("append", "write", cur, <<line>>, line.parent)

appendEntry(line) ==
  /\ Settled /\ next <= MaxEntries
  /\ entries' = Append(entries, line)
  /\ leaf' = line.id
  /\ next' = next + 1
  /\ persist(line)
  /\ UNCHANGED <<disk, cur, flushed, err, failures, crashes, acked, unsynced>>

appendMessage(kind) == appendEntry(Line(kind, next, leaf, 0))

appendLabelChange(target) ==
  target \in Ids(entries) /\ appendEntry(Line("label", next, leaf, target))

(* The leaf moves before the entry is appended, and stays when that fails. *)
branchWithSummary(from) ==
  /\ from \in Ids(entries) \cup {0}
  /\ \/ appendEntry(Line("user", next, from, 0))
     \/ err /\ branch(from)

(* mutant: the entries of the path keep the parents they had *)
BugKeepParents(s) == s

Rechained(s) ==
  [i \in DOMAIN s |-> [s[i] EXCEPT !.parent = IF i = 1 THEN 0 ELSE s[i - 1].id]]

(* The path to id without its labels, and behind it one new label for every
   entry of the path that has one. *)
Branched(s, id) ==
  LET kept == SelectSeq(getBranch(s, id), LAMBDA line : line.kind # "label")
      first(i) == /\ s[i].kind = "label" /\ s[i].of \in Ids(kept)
                  /\ \A j \in 1..(i - 1) : s[j].kind = "label" => s[j].of # s[i].of
      named == SelectSeq([i \in DOMAIN s |-> i], first)
      labels == [n \in DOMAIN named |->
                   Line("label", next + n - 1, IF n = 1 THEN LastId(kept) ELSE next + n - 2,
                        s[named[n]].of)]
  IN  Rechained(kept) \o labels

(* fork: a second manager is opened on the file, moved to a new file that holds
   the path to id, and replaces the first one.  Without an answer on the path
   the new file is left for later. *)
createBranchedSession(id, g) ==
  /\ Idle /\ Unused(g)
  /\ loadEntriesFromFile(live[cur]) = live[cur]
  /\ id \in Ids(Entries(live[cur]))
  /\ LET s == Branched(Entries(live[cur]), id)
     IN  /\ next' = Max({next} \cup {n + 1 : n \in Ids(s)})
         /\ \/ /\ HasAssistant(s)
               /\ Write("branch", "publish", g, fileContent(s), 0)
               /\ UNCHANGED memory
            \/ /\ ~HasAssistant(s)
               /\ cur' = g /\ entries' = s /\ leaf' = LastId(s)
               /\ flushed' = FALSE /\ err' = FALSE
               /\ job' = [NoJob EXCEPT !.file = g]
  /\ UNCHANGED <<disk, failures, crashes, acked, unsynced>>

(* A copy of a whole session in a new file, opened when it is written. *)
forkFrom(f, g) ==
  /\ job.mode = "closed" /\ Unused(g) /\ f # g
  /\ loadEntriesFromFile(live[f]) # <<>>
  /\ Write("fork", "publish", g, loadEntriesFromFile(live[f]), 0)
  /\ UNCHANGED <<disk, memory, count, acked, unsynced>>

-----------------------------------------------------------------------------
(* writeJsonLinesAtomically: a temporary file is written and synced, given the
   name, and the directory is synced. *)

At(step) == job.step = step

ToStep(step) == job' = [job EXCEPT !.step = step]

Publish(f, content) ==
  /\ live' = [live EXCEPT ![f] = content]
  /\ old' = [old EXCEPT ![f] = @ \cup data[f]]
  /\ data' = [data EXCEPT ![f] = {content}]

(* The temporary file gets the name: by rename, or by link for a file that must
   not exist yet. *)
publish ==
  /\ At("publish")
  /\ job.mode = "open" \/ live[job.file] = Absent
  /\ Publish(job.file, job.content)
  /\ ToStep("dirsync")
  /\ UNCHANGED <<memory, count, acked, unsynced>>

syncDirectory ==
  /\ At("dirsync")
  /\ old' = [old EXCEPT ![job.file] = {}]
  /\ acked' = [acked EXCEPT ![job.file] = @ \cup Ids(job.content)]
  /\ \/ /\ job.mode = "first"
        /\ flushed' = TRUE /\ job' = [NoJob EXCEPT !.file = cur]
        /\ UNCHANGED <<cur, entries, leaf, err>>
     \/ job.mode # "first" /\ loaded(job.file, Tail(job.content))
  /\ UNCHANGED <<live, data, count, unsynced>>

(* appendJsonLineDurably *)

(* Text behind text without a newline makes one malformed line of both. *)
Appended(c, line) ==
  IF c # <<>> /\ c[Len(c)] = Torn THEN SubSeq(c, 1, Len(c) - 1) \o <<Bad>> ELSE Append(c, line)

(* What a file may hold while a line behind c is not synced. *)
Unsynced(c, line) == {c, Append(c, Torn), Append(c, Bad), Appended(c, line)}

Wrote(c) ==
  /\ live' = [live EXCEPT ![job.file] = c]
  /\ data' = [data EXCEPT ![job.file] = @ \cup Unsynced(live[job.file], job.content[1])]
  /\ UNCHANGED old

(* The file is opened and the line written. *)
writeAppend ==
  /\ At("write") /\ ToStep("sync")
  /\ Wrote(Appended(live[job.file], job.content[1]))
  /\ UNCHANGED <<memory, count, acked, unsynced>>

(* mutant: the call returns before the line is synced *)
BugReturnUnsynced(f) == data' = data

Sync(f) == data' = [data EXCEPT ![f] = {live[f]}]

syncAppend ==
  /\ At("sync")
  /\ Sync(job.file)
  /\ acked' = [acked EXCEPT ![job.file] = @ \cup Ids(job.content)]
  /\ job' = [NoJob EXCEPT !.file = cur]
  /\ UNCHANGED <<live, old, memory, count, unsynced>>

-----------------------------------------------------------------------------
(* A file operation fails. *)

Fails == failures < MaxFailures /\ failures' = failures + 1

(* Nothing was published, or the file could not be opened: an entry is taken
   back, a manager that is being made is given up, a fork leaves the session as
   it was. *)
plainFailure ==
  /\ job.step \in {"publish", "write"} /\ Fails
  /\ \/ /\ job.mode \in {"first", "append"}
        /\ entries' = SubSeq(entries, 1, Len(entries) - 1)
        /\ leaf' = job.undo
        /\ job' = [NoJob EXCEPT !.file = cur]
     \/ /\ job.mode \in {"open", "fork"}
        /\ job' = [NoJob EXCEPT !.mode = "closed", !.file = cur]
        /\ UNCHANGED <<entries, leaf>>
     \/ /\ job.mode = "branch"
        /\ job' = [NoJob EXCEPT !.file = cur]
        /\ UNCHANGED <<entries, leaf>>
  /\ UNCHANGED <<disk, cur, flushed, err, next, crashes, acked, unsynced>>

(* SessionFilePublicationError: the file has its name, for how long is not known. *)
publicationFailure ==
  /\ At("dirsync") /\ Fails
  /\ unsynced' = unsynced \cup {job.file}
  /\ \/ /\ job.mode = "first"
        /\ flushed' = TRUE /\ err' = TRUE /\ leaf' = LastId(entries)
        /\ job' = [NoJob EXCEPT !.file = cur]
     \/ /\ job.mode \in {"open", "fork"}
        /\ job' = [NoJob EXCEPT !.mode = "closed", !.file = cur]
        /\ UNCHANGED <<flushed, err, leaf>>
     \/ /\ job.mode = "branch"
        /\ job' = [NoJob EXCEPT !.file = cur]
        /\ UNCHANGED <<flushed, err, leaf>>
  /\ UNCHANGED <<disk, cur, entries, next, crashes, acked>>

(* SessionFileAppendError: all, some or nothing of the line is in the file. *)
appendFailure ==
  /\ Fails
  /\ \/ At("write") /\ \E c \in Unsynced(live[job.file], job.content[1]) : Wrote(c)
     \/ At("sync") /\ UNCHANGED disk
  /\ err' = TRUE /\ leaf' = LastId(entries)
  /\ job' = [NoJob EXCEPT !.file = cur]
  /\ UNCHANGED <<cur, entries, flushed, next, crashes, acked, unsynced>>

-----------------------------------------------------------------------------
Gone ==
  /\ crashes < MaxCrashes /\ crashes' = crashes + 1
  /\ entries' = <<>> /\ leaf' = 0 /\ flushed' = FALSE /\ err' = FALSE
  /\ job' = [NoJob EXCEPT !.mode = "closed"]
  /\ UNCHANGED <<cur, next, failures, acked>>

(* The process ends, in the middle of a call or between two. *)
Kill ==
  /\ Gone
  /\ unsynced' = unsynced \cup (IF At("dirsync") THEN {job.file} ELSE {})
  /\ \/ UNCHANGED disk
     \/ At("write") /\ Wrote(Append(live[job.file], Torn))

PowerLoss ==
  /\ Gone
  /\ \E f \in Files : Cardinality(Survivors(f)) > 1
  /\ live' \in {c \in [Files -> UNION {Survivors(f) : f \in Files}] :
                  \A f \in Files : c[f] \in Survivors(f)}
  /\ data' = [f \in Files |-> {live'[f]}]
  /\ old' = [f \in Files |-> {}]
  /\ UNCHANGED unsynced

Next ==
  \/ \E f \in Files : setSessionFile(f) \/ NewSession(f)
  \/ \E id \in Ids(entries) \cup {0} : branch(id) \/ branchWithSummary(id)
  \/ \E kind \in {"assistant", "user"} : appendMessage(kind)
  \/ \E id \in Ids(entries) : appendLabelChange(id)
  \/ \E g \in Files :
       \/ \E id \in Ids(Entries(live[cur])) : createBranchedSession(id, g)
       \/ \E f \in Files : forkFrom(f, g)
  \/ publish \/ syncDirectory \/ writeAppend \/ syncAppend
  \/ plainFailure \/ publicationFailure \/ appendFailure
  \/ Kill \/ PowerLoss

Spec == Init /\ [][Next]_vars

-----------------------------------------------------------------------------
(* An entry is reported as written only when it survives: whatever the machine
   loses in whichever step, a file that can be opened again holds, before its
   first damaged line, every entry whose append, first write, repair or fork
   returned (appendJsonLineDurably, writeJsonLinesAtomically,
   loadEntriesFromFileResult).  Except for files that got their name in a call
   which did not come to sync the directory: when such a file is opened again
   nothing syncs the directory, and the name may still be lost. *)
AcknowledgedSurvives ==
  \A f \in Files \ unsynced : \A c \in Survivors(f) \cup {live[f]} :
    acked[f] \subseteq Ids(Entries(c))

(* Between calls the manager and its file agree: a session on file is, line by
   line, the entries in memory, and a session that is only in memory has no
   answer of the model yet and no file (persist, appendEntry, setSessionFile). *)
MemoryIsFile ==
  Settled => IF flushed THEN live[cur] = fileContent(entries)
             ELSE live[cur] = Absent /\ ~HasAssistant(entries)

ParentsPrecede(s) ==
  \A i \in DOMAIN s : s[i].parent = 0 \/ \E j \in 1..(i - 1) : s[j].id = s[i].parent

(* In memory and in every file that a power loss may leave, the parent of an
   entry is in front of it, so that every path ends at a root
   (createBranchedSession, loadEntriesFromFileResult, branchWithSummary).
   Damage ends a file: no entry is ever written behind a line that cannot be
   read, where opening the file would drop it (appendEntry refuses after an
   uncertain append, setSessionFile repairs before the next one). *)
TreeClosed ==
  /\ ParentsPrecede(entries)
  /\ leaf \in Ids(entries) \cup {0}
  /\ \A f \in Files : \A c \in Survivors(f) : ParentsPrecede(Entries(c))
  /\ \A f \in Files : \A c \in Survivors(f) \cup {live[f]} :
       \A i \in DOMAIN c : Damaged(c[i]) => i = Len(c)
=============================================================================
