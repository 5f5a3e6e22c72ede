---------------------------- MODULE SessionFiles ----------------------------
(***************************************************************************)
(* The files of one session.  Six stores share the directory of a session  *)
(* by convention: FileSessionStore (meta, state, event log),               *)
(* FileMetricsStore, FileIterationStore (checkpoints), FileTreeStore,      *)
(* FileWorkspace and FileBuildReportSink.  Each keeps a map of mutexes,    *)
(* one per session, so calls of different stores run side by side; all but *)
(* the metrics store and the sink forget the mutex when they delete their  *)
(* data.  A call looks its mutex up, locks it, reads, and replaces a file  *)
(* by a rename.  The process may crash, and any write may fail.            *)
(*                                                                         *)
(* The content of a file is the set of calls whose writes it holds, {} for *)
(* none: where the code tells a missing file from an empty one it looks at *)
(* files that are never empty.                                             *)
(***************************************************************************)
EXTENDS Integers, Sequences, FiniteSets, FiniteSetsExt

CONSTANTS
  FileCall,    \* calls, each made at most once
  Note,        \* files for notes
  Scratch,     \* files for scratch entries of one slot
  MaxNotes,    \* MaxNoteCount, and MaxScratchFilesPerSlot
  MaxReports,  \* the limit of the build reports kept
  OpSets       \* sets of operations that are tried together

Rewritten == {"state", "metrics", "tree"}   \* read, changed and written back
File == Rewritten \cup {"meta", "plan", "artifact"}
          \cup Note \cup Scratch
Dir == {"session", "checkpoints", "tree", "workspace", "reports"}
Store == {"session", "metrics", "checkpoints", "tree", "workspace", "reports"}

Operation == {"Create", "Update", "SetState", "DeleteState", "AppendEvent", "Delete",
              "UpdateMetrics", "DeleteMetrics", "Save", "DeleteCheckpoints",
              "CreateTree", "AddNode", "UpdateNode", "DeleteNode", "SetCursor", "PromoteNode",
              "DeleteTree", "WritePlan", "WriteNote", "WriteScratch", "DeleteScratchSlot",
              "WriteArtifact", "DeleteWorkspace", "SaveReport"}

\* Notes and scratch entries have directories of their own, and a caller can
\* set neither limit to less than one.
ASSUME FilesAssumption ==
  /\ IsFiniteSet(FileCall) /\ IsFiniteSet(Note) /\ IsFiniteSet(Scratch)
  /\ Note \cap Scratch = {}
  /\ (Note \cup Scratch) \cap
       (Rewritten \cup {"meta", "plan", "artifact", "events", "checkpoint", "report", "none"}) = {}
  /\ MaxNotes \in Nat \ {0} /\ MaxReports \in Nat \ {0}
  /\ \A ops \in OpSets : ops \subseteq Operation

StoreOf(op) ==
  CASE op \in {"Create", "Update", "SetState", "DeleteState", "AppendEvent", "Delete"} -> "session"
    [] op \in {"UpdateMetrics", "DeleteMetrics"} -> "metrics"
    [] op \in {"Save", "DeleteCheckpoints"} -> "checkpoints"
    [] op \in {"CreateTree", "AddNode", "UpdateNode", "DeleteNode", "SetCursor",
               "PromoteNode", "DeleteTree"} -> "tree"
    [] op = "SaveReport" -> "reports"
    [] OTHER -> "workspace"

VARIABLES
  focus,     \* the operations of this behaviour
  dirs,      \* directories there are
  content,     \* content of each file
  cps,       \* checkpoint files: sequence number and the call that wrote it
  reports,   \* sequence numbers of the build reports
  events,    \* lines of the event log
  storeMutex,     \* per store, the mutex in its map (they are numbered)
  held,      \* mutexes that are locked
  call,      \* what each call does
  \* history
  kept,      \* writes acknowledged since the file was removed
  saved,     \* sequence numbers acknowledged since their directory was removed
  logged,    \* events acknowledged since the log was removed
  cuts,      \* appends that were cut off
  forgotten, \* stores that have forgotten a mutex
  wiped      \* stores that lost what they had acknowledged to a failed Create

dirDisk == <<dirs, content, cps, reports, events>>
history == <<kept, saved, logged, cuts, forgotten, wiped>>
fileVars == <<focus, dirDisk, storeMutex, held, call, history>>

Nothing == [op |-> "none", at |-> "unused", gen |-> 0, file |-> "none", new |-> {}]

\* No directory yet, or a session without state and events.
FilesInit ==
  /\ focus \in OpSets
  /\ \E there \in BOOLEAN :
       /\ dirs = IF there THEN {"session"} ELSE {}
       /\ content = [f \in File |-> IF there /\ f = "meta" THEN {"before"} ELSE {}]
  /\ cps = {} /\ reports = {} /\ events = <<>>
  /\ storeMutex = [s \in Store |-> 0] /\ held = {}
  /\ call = [c \in FileCall |-> Nothing]
  /\ kept = [f \in Rewritten |-> {}] /\ saved = <<>> /\ logged = <<>>
  /\ cuts = 0 /\ forgotten = {} /\ wiped = {}

-----------------------------------------------------------------------------
\* Calls and mutexes

MyLock(c) == <<StoreOf(call[c].op), call[c].gen>>
Doing(c, op) == call[c].op = op /\ call[c].at = "locked"

\* lockFor, before Lock.
BeginCall(c, op) ==
  /\ call[c].at = "unused" /\ op \in focus
  /\ call' = [call EXCEPT ![c] = [Nothing EXCEPT !.op = op, !.at = "wait",
                                                 !.gen = storeMutex[StoreOf(op)]]]
  /\ UNCHANGED <<focus, dirDisk, storeMutex, held, history>>

\* Wrong variant: a call does not wait for the mutex.
LockCall_NoWait(c) ==
  /\ call[c].at = "wait"
  /\ held' = held \cup {MyLock(c)}
  /\ call' = [call EXCEPT ![c].at = "locked"]
  /\ UNCHANGED <<focus, dirDisk, storeMutex, history>>

LockCall(c) ==
  /\ call[c].at = "wait" /\ MyLock(c) \notin held
  /\ held' = held \cup {MyLock(c)}
  /\ call' = [call EXCEPT ![c].at = "locked"]
  /\ UNCHANGED <<focus, dirDisk, storeMutex, history>>

End(c, how) ==
  /\ call' = [call EXCEPT ![c].at = how, ![c].new = {}, ![c].file = "none"]
  /\ held' = held \ {MyLock(c)}

Fails(c) == End(c, "error") /\ UNCHANGED <<dirDisk, history>>

ToWrite(c, f, new) ==
  /\ call' = [call EXCEPT ![c].at = "write", ![c].file = f, ![c].new = new]
  /\ UNCHANGED <<content, cps, reports, events, held, history>>

\* The file without the writes that are gone.
ToWriteWithout(c, f, gone) ==
  /\ call' = [call EXCEPT ![c].at = "write", ![c].file = f, ![c].new = content[f] \ gone]
  /\ kept' = [kept EXCEPT ![f] = @ \ gone]
  /\ UNCHANGED <<dirDisk, held, saved, logged, cuts, forgotten, wiped>>

\* Every step of a call under its mutex.
Step == UNCHANGED <<focus, storeMutex>>

\* What is forgotten with a directory or a file.
Forget(fs) ==
  /\ content' = [f \in File |-> IF f \in fs THEN {} ELSE content[f]]
  /\ kept' = [f \in Rewritten |-> IF f \in fs THEN {} ELSE kept[f]]

RemoveSession ==
  /\ dirs' = {} /\ cps' = {} /\ reports' = {} /\ events' = <<>>
  /\ Forget(File) /\ saved' = <<>> /\ logged' = <<>>

\* locks.Delete: the next call makes a new mutex.
ForgetMutex(s) ==
  /\ storeMutex' = [storeMutex EXCEPT ![s] = @ + 1]
  /\ forgotten' = forgotten \cup {s}
  /\ UNCHANGED wiped

-----------------------------------------------------------------------------
\* FileSessionStore

\* Create: an existing directory is taken for an existing session.
CreateDir(c) ==
  /\ Doing(c, "Create") /\ Step
  /\ IF "session" \in dirs THEN Fails(c)
     ELSE /\ dirs' = {"session"}
          /\ ToWrite(c, "meta", {c})

OwnerOf(f) == IF f = "state" THEN "session" ELSE f

\* The stores with data in the directory that a caller relies on.
Acknowledged ==
  {OwnerOf(f) : f \in {g \in Rewritten : kept[g] # {}}}
    \cup (IF saved # <<>> THEN {"checkpoints"} ELSE {})
    \cup (IF logged # <<>> THEN {"session"} ELSE {})

\* After meta.json, Create makes an empty log and an empty state file; when
\* a write fails it removes the directory with all that is in it, what other
\* stores have written there since included.
CreateFails(c) ==
  /\ call[c].op = "Create" /\ call[c].at \in {"write", "rest"} /\ Step
  /\ wiped' = wiped \cup Acknowledged
  /\ RemoveSession /\ End(c, "error")
  /\ UNCHANGED <<cuts, forgotten>>

CreateRest(c) ==
  /\ call[c].op = "Create" /\ call[c].at = "rest" /\ Step
  /\ "session" \in dirs
  /\ content' = [content EXCEPT !["state"] = {}]
  /\ kept' = [kept EXCEPT !["state"] = {}]
  /\ End(c, "ok")
  /\ UNCHANGED <<dirs, cps, reports, events, saved, logged, cuts, forgotten, wiped>>

\* readMeta finds one: the session can be read, listed and updated.
HasMeta == "session" \in dirs /\ content["meta"] # {}

UpdateMeta(c) ==
  /\ Doing(c, "Update") /\ Step
  /\ IF HasMeta
     THEN ToWrite(c, "meta", {c}) /\ UNCHANGED dirs
     ELSE Fails(c)

ReadState == content["state"]

SetState(c) ==
  /\ Doing(c, "SetState") /\ Step
  /\ IF "session" \in dirs
     THEN ToWrite(c, "state", ReadState \cup {c}) /\ UNCHANGED dirs
     ELSE Fails(c)

DeleteState(c) ==
  /\ Doing(c, "DeleteState") /\ Step
  /\ IF "session" \notin dirs THEN Fails(c)
     ELSE IF ReadState = {} THEN End(c, "ok") /\ UNCHANGED <<dirDisk, history>>
     ELSE \E k \in ReadState : ToWriteWithout(c, "state", {k})

\* touchMetaLocked, after the state file has been replaced.
TouchMeta(c) ==
  /\ call[c].op \in {"SetState", "DeleteState"} /\ call[c].at = "rest" /\ Step
  /\ IF HasMeta
     THEN /\ End(c, "ok")
          /\ kept' = [kept EXCEPT !["state"] = @ \cup (content["state"] \cap {c})]
          /\ UNCHANGED <<dirDisk, saved, logged, cuts, forgotten, wiped>>
     ELSE Fails(c)

\* A line of the log: the events on it, whether a part of one was cut off, and
\* whether it still lacks its end.
Line(es, bad, open) == [es |-> es, bad |-> bad, open |-> open]

\* O_APPEND: a line that lacks its end is continued.
Appended(e) ==
  IF events # <<>> /\ events[Len(events)].open
  THEN [events EXCEPT ![Len(events)] = Line(Append(@.es, e), TRUE, FALSE)]
  ELSE Append(events, Line(<<e>>, FALSE, FALSE))

\* A write that ended early.
CutOff ==
  IF events # <<>> /\ events[Len(events)].open THEN events
  ELSE Append(events, Line(<<>>, TRUE, TRUE))

StatForAppend(c) ==
  /\ Doing(c, "AppendEvent") /\ Step
  /\ IF "session" \in dirs THEN ToWrite(c, "events", {}) /\ UNCHANGED dirs
     ELSE Fails(c)

\* Wrong variant: the log is opened without O_APPEND.
AppendEvent_Over(c) ==
  /\ call[c].op = "AppendEvent" /\ call[c].at = "write" /\ Step
  /\ "session" \in dirs
  /\ events' = <<Line(<<c>>, FALSE, FALSE)>>
  /\ logged' = Append(logged, c) /\ End(c, "ok")
  /\ UNCHANGED <<dirs, content, cps, reports, kept, saved, cuts, forgotten, wiped>>

AppendEvent(c) ==
  /\ call[c].op = "AppendEvent" /\ call[c].at = "write" /\ Step
  /\ "session" \in dirs
  /\ events' = Appended(c)
  /\ logged' = Append(logged, c) /\ End(c, "ok")
  /\ UNCHANGED <<dirs, content, cps, reports, kept, saved, cuts, forgotten, wiped>>

AppendCutOff(c) ==
  /\ call[c].op = "AppendEvent" /\ call[c].at = "write" /\ Step
  /\ "session" \in dirs
  /\ events' = CutOff /\ cuts' = cuts + 1 /\ End(c, "error")
  /\ UNCHANGED <<dirs, content, cps, reports, kept, saved, logged, forgotten, wiped>>

DeleteSession(c) ==
  /\ Doing(c, "Delete") /\ UNCHANGED <<focus, cuts>>
  /\ RemoveSession /\ ForgetMutex("session") /\ End(c, "ok")

-----------------------------------------------------------------------------
\* FileMetricsStore; Update makes the directory of the session if need be.

UpdateMetrics(c) ==
  /\ Doing(c, "UpdateMetrics") /\ Step
  /\ dirs' = dirs \cup {"session"}
  /\ ToWrite(c, "metrics", content["metrics"] \cup {c})

DeleteMetrics(c) ==
  /\ Doing(c, "DeleteMetrics") /\ Step
  /\ Forget({"metrics"}) /\ End(c, "ok")
  /\ UNCHANGED <<dirs, cps, reports, events, saved, logged, cuts, forgotten, wiped>>

-----------------------------------------------------------------------------
\* FileIterationStore

NextSequence == IF cps = {} THEN 1 ELSE Max({p.seq : p \in cps}) + 1

\* Load without an id.
LatestCheckpoint == Max({p.seq : p \in cps})

SaveCheckpoint(c) ==
  /\ Doing(c, "Save") /\ Step
  /\ dirs' = dirs \cup {"session", "checkpoints"}
  /\ ToWrite(c, "checkpoint", {NextSequence})

WriteCheckpoint(c) ==
  /\ call[c].op = "Save" /\ call[c].at = "write" /\ Step
  /\ "checkpoints" \in dirs
  /\ LET n == CHOOSE n \in call[c].new : TRUE IN
     /\ cps' = cps \cup {[seq |-> n, by |-> c]}
     /\ saved' = Append(saved, n)
  /\ End(c, "ok")
  /\ UNCHANGED <<dirs, content, reports, events, kept, logged, cuts, forgotten, wiped>>

DeleteCheckpoints(c) ==
  /\ Doing(c, "DeleteCheckpoints") /\ UNCHANGED <<focus, content, reports, events, kept, logged, cuts>>
  /\ dirs' = dirs \ {"checkpoints"} /\ cps' = {} /\ saved' = <<>>
  /\ ForgetMutex("checkpoints") /\ End(c, "ok")

-----------------------------------------------------------------------------
\* FileTreeStore: every change reads tree.json and writes it back.

CreateTreeFile(c) ==
  /\ Doing(c, "CreateTree") /\ Step
  /\ IF content["tree"] = {} THEN ToWrite(c, "tree", {c}) /\ UNCHANGED dirs
     ELSE Fails(c)

ReadTree == content["tree"]

RewriteTree(c, op) ==
  /\ Doing(c, op) /\ Step
  /\ IF ReadTree # {} THEN ToWrite(c, "tree", ReadTree \cup {c}) /\ UNCHANGED dirs
     ELSE Fails(c)

AddNodeFile(c) == RewriteTree(c, "AddNode")
UpdateNodeFile(c) == RewriteTree(c, "UpdateNode")
SetCursorFile(c) == RewriteTree(c, "SetCursor")

\* What was written to the node goes with it; the root stays.
DeleteNodeFile(c) ==
  /\ Doing(c, "DeleteNode") /\ Step
  /\ IF ReadTree = {} THEN Fails(c)
     ELSE \E gone \in SUBSET ReadTree :
            gone # ReadTree /\ ToWriteWithout(c, "tree", gone)

\* PromoteNode lets its mutex go while the promoter runs, then locks the same
\* one again and reads anew.
PromoteSnapshot(c) ==
  /\ Doing(c, "PromoteNode") /\ Step
  /\ IF ReadTree = {} THEN Fails(c)
     ELSE /\ call' = [call EXCEPT ![c].at = "promoting"]
          /\ held' = held \ {MyLock(c)}
          /\ UNCHANGED <<dirDisk, history>>

PromoteCommit(c) ==
  /\ call[c].op = "PromoteNode" /\ call[c].at = "promoting" /\ Step
  /\ MyLock(c) \notin held
  /\ \/ /\ ReadTree # {}
        /\ call' = [call EXCEPT ![c].at = "write", ![c].file = "tree",
                                ![c].new = ReadTree \cup {c}]
        /\ held' = held \cup {MyLock(c)}
        /\ UNCHANGED <<dirDisk, history>>
     \/ Fails(c)   \* no tree, no node, or nothing left to fold

DeleteTreeDir(c) ==
  /\ Doing(c, "DeleteTree") /\ UNCHANGED <<focus, cps, reports, events, saved, logged, cuts>>
  /\ dirs' = dirs \ {"tree"} /\ Forget({"tree"})
  /\ ForgetMutex("tree") /\ End(c, "ok")

-----------------------------------------------------------------------------
\* FileWorkspace; empty content removes a file.

WritePlan(c) ==
  /\ Doing(c, "WritePlan") /\ Step
  /\ \E new \in {{c}, {}} : ToWrite(c, "plan", new) /\ UNCHANGED dirs

Count(kind) == Cardinality({n \in kind : content[n] # {}})

\* WriteNote and WriteScratch: the limit counts for new entries only.
WriteEntry(c, kind) ==
  \E n \in kind :
    \/ /\ content[n] # {} \/ Count(kind) < MaxNotes
       /\ ToWrite(c, n, {c}) /\ UNCHANGED dirs
    \/ /\ content[n] = {} /\ Count(kind) >= MaxNotes
       /\ Fails(c)
    \/ ToWrite(c, n, {}) /\ UNCHANGED dirs

WriteNote(c) == Doing(c, "WriteNote") /\ Step /\ WriteEntry(c, Note)
WriteScratch(c) == Doing(c, "WriteScratch") /\ Step /\ WriteEntry(c, Scratch)

DeleteScratchSlot(c) ==
  /\ Doing(c, "DeleteScratchSlot") /\ Step
  /\ content' = [f \in File |-> IF f \in Scratch THEN {} ELSE content[f]]
  /\ End(c, "ok")
  /\ UNCHANGED <<dirs, cps, reports, events, history>>

WriteArtifact(c) ==
  /\ Doing(c, "WriteArtifact") /\ Step
  /\ ToWrite(c, "artifact", {c}) /\ UNCHANGED dirs

WorkspaceFiles == {"plan", "artifact"} \cup Note \cup Scratch

DeleteWorkspace(c) ==
  /\ Doing(c, "DeleteWorkspace") /\ UNCHANGED <<focus, cps, reports, events, saved, logged, cuts>>
  /\ dirs' = dirs \ {"workspace"} /\ Forget(WorkspaceFiles)
  /\ ForgetMutex("workspace") /\ End(c, "ok")

-----------------------------------------------------------------------------
\* FileBuildReportSink

\* allocateSequenceLocked: the next number, and the numbers there are.
SaveReport(c) ==
  /\ Doing(c, "SaveReport") /\ Step
  /\ dirs' = dirs \cup {"session", "reports"}
  /\ LET seq == IF reports = {} THEN 1 ELSE Max(reports) + 1
     IN  ToWrite(c, "report", reports \cup {seq})

WriteReport(c) ==
  /\ call[c].op = "SaveReport" /\ call[c].at = "write" /\ Step
  /\ "reports" \in dirs
  /\ reports' = reports \cup {Max(call[c].new)}
  /\ call' = [call EXCEPT ![c].at = "rest"]
  /\ UNCHANGED <<dirs, content, cps, events, held, history>>

\* trimLocked goes by the numbers found before the write; it may fail.
TrimReports(c) ==
  /\ call[c].op = "SaveReport" /\ call[c].at = "rest" /\ Step
  /\ LET all == call[c].new
         old == {n \in all : Cardinality({k \in all : k >= n}) > MaxReports}
     IN  \/ reports' = reports \ old /\ End(c, "ok")
         \/ old # {} /\ UNCHANGED reports /\ End(c, "error")
  /\ UNCHANGED <<dirs, content, cps, events, history>>

-----------------------------------------------------------------------------
\* writeJSONAtomic, writeFileAtomic

\* Where the file goes.  Tree and workspace make their directory just before.
Target(c) ==
  IF StoreOf(call[c].op) \in {"tree", "workspace"} THEN StoreOf(call[c].op) ELSE "session"
Replaces(c) ==
  call[c].at = "write" /\ call[c].op \notin {"AppendEvent", "Save", "SaveReport"}

ReplaceFile(c) ==
  /\ Replaces(c) /\ Step
  /\ LET d == Target(c)
         f == call[c].file
     IN  /\ d = "session" => "session" \in dirs
         /\ dirs' = dirs \cup {"session", d}
         /\ content' = [content EXCEPT ![f] = call[c].new]
         /\ IF call[c].op \in {"Create", "SetState", "DeleteState"}
            THEN call' = [call EXCEPT ![c].at = "rest"] /\ UNCHANGED <<held, kept>>
            ELSE /\ End(c, "ok")
                 /\ kept' = [g \in Rewritten |-> IF g = f THEN kept[g] \cup (call[c].new \cap {c}) ELSE kept[g]]
  /\ UNCHANGED <<cps, reports, events, saved, logged, cuts, forgotten, wiped>>

\* The directory is gone, or the write fails; the old file stays.
FileWriteFails(c) ==
  /\ call[c].at = "write" /\ call[c].op # "Create" /\ Step
  /\ Fails(c)

-----------------------------------------------------------------------------
\* The process ends: the mutexes are gone, an append may be cut off.
CrashFiles ==
  /\ \E c \in FileCall : call[c].at \in {"locked", "write", "rest"}
  /\ call' = [c \in FileCall |->
                IF call[c].at \in {"wait", "locked", "write", "rest", "promoting"}
                THEN [Nothing EXCEPT !.op = call[c].op, !.at = "dead"] ELSE call[c]]
  /\ held' = {}
  /\ \/ UNCHANGED <<events, cuts>>
     \/ /\ \E c \in FileCall : call[c].op = "AppendEvent" /\ call[c].at = "write"
        /\ "session" \in dirs
        /\ events' = CutOff /\ cuts' = cuts + 1
  /\ UNCHANGED <<focus, dirs, content, cps, reports, storeMutex, kept, saved, logged, forgotten, wiped>>

FilesStep ==
  \/ CrashFiles
  \/ \E c \in FileCall :
       \/ \E op \in focus : BeginCall(c, op)
       \/ LockCall(c)
       \/ CreateDir(c) \/ CreateRest(c) \/ CreateFails(c) \/ UpdateMeta(c)
       \/ SetState(c) \/ DeleteState(c) \/ TouchMeta(c)
       \/ StatForAppend(c) \/ AppendEvent(c) \/ AppendCutOff(c) \/ DeleteSession(c)
       \/ UpdateMetrics(c) \/ DeleteMetrics(c)
       \/ SaveCheckpoint(c) \/ WriteCheckpoint(c) \/ DeleteCheckpoints(c)
       \/ CreateTreeFile(c) \/ AddNodeFile(c) \/ UpdateNodeFile(c) \/ SetCursorFile(c)
       \/ DeleteNodeFile(c) \/ PromoteSnapshot(c) \/ PromoteCommit(c) \/ DeleteTreeDir(c)
       \/ WritePlan(c) \/ WriteNote(c) \/ WriteScratch(c) \/ DeleteScratchSlot(c)
       \/ WriteArtifact(c) \/ DeleteWorkspace(c)
       \/ SaveReport(c) \/ WriteReport(c) \/ TrimReports(c)
       \/ ReplaceFile(c) \/ FileWriteFails(c)

FilesSpec == FilesInit /\ [][FilesStep]_fileVars

-----------------------------------------------------------------------------
\* Properties

Increasing(s) == \A i, j \in DOMAIN s : i < j => s[i] < s[j]

\* As long as its file is not removed, no acknowledged write is lost to another
\* one, over failed writes and crashes: state, metrics and tree hold every
\* acknowledged change, checkpoints are numbered in the order of their saves
\* without a number used twice, loading gives the last one saved, notes stay
\* within their limit, and reports do unless a save failed or is under way.
\* Only a store that has forgotten a mutex loses this.
WritesKept ==
  /\ \A f \in Rewritten :
       OwnerOf(f) \notin forgotten => kept[f] \subseteq content[f]
  /\ "checkpoints" \notin forgotten =>
       /\ Increasing(saved)
       /\ saved # <<>> => LatestCheckpoint = saved[Len(saved)]
       /\ {saved[i] : i \in DOMAIN saved} \subseteq {p.seq : p \in cps}
       /\ \A p, q \in cps : p.seq = q.seq => p = q
  /\ "workspace" \notin forgotten =>
       Count(Note) <= MaxNotes /\ Count(Scratch) <= MaxNotes
  /\ LET late == {c \in FileCall : call[c].op = "SaveReport"
                                   /\ call[c].at \in {"rest", "error", "dead"}}
     IN  late = {} => Cardinality(reports) <= MaxReports

\* ListEvents: one line that cannot be decoded makes the listing fail.
ListEvents ==
  IF \E i \in DOMAIN events : events[i].bad THEN "error"
  ELSE [i \in DOMAIN events |-> events[i].es[1]]

\* The log holds every acknowledged event, in order.  An append that was cut
\* off spoils one line and at most one later event with it; with none cut off
\* the listing is what was acknowledged.
EventsKept ==
  LET on == {p \in (DOMAIN events) \X (1..Cardinality(FileCall)) :
               p[2] <= Len(events[p[1]].es)}
      at(e) == {p \in on : events[p[1]].es[p[2]] = e}
  IN  /\ \A k \in DOMAIN logged : Cardinality(at(logged[k])) = 1
      /\ \A k, l \in DOMAIN logged :
           k < l => \A p \in at(logged[k]), q \in at(logged[l]) : p[1] < q[1]
      /\ \A i \in DOMAIN events : Len(events[i].es) <= 1
                                  /\ (events[i].open => i = Len(events))
      /\ Cardinality({i \in DOMAIN events : events[i].bad}) <= cuts
      /\ cuts = 0 => ListEvents = logged

\* Files are removed by the deletions their callers ask for, and by a Create
\* that fails.  The latter takes the data that other stores, whose mutexes do
\* not keep them out, have acknowledged in the new directory; those are the
\* only ones to lose any, for the session store had nothing to lose there.
OwnDataSpared == "session" \notin forgotten => "session" \notin wiped

\* What a store of the session directory acknowledged is there to be read, the
\* rewritten files, the numbered ones and the event log, until it is deleted or
\* a failed Create of the session takes it from another store.
FilesKept == WritesKept /\ EventsKept /\ OwnDataSpared
=============================================================================
