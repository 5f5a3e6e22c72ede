----------------------------- MODULE FileTools -----------------------------
(***************************************************************************)
(* The read, edit and write tools on shared files.  A run executes a batch *)
(* of tool calls concurrently, and several runs share the process: the     *)
(* edit tool serialises itself with a lock per path, the write tool does   *)
(* not take it, and both replace a file by renaming a temporary one.       *)
(*                                                                         *)
(* A text is a short sequence of words; an edit replaces one word by a     *)
(* word of its own.  Path checks happen before the first step here.        *)
(***************************************************************************)
EXTENDS Naturals, Sequences, FiniteSets, SequencesExt

CONSTANTS
  EditCall,     \* tool calls
  Path,         \* files
  MaxTracked    \* maxEntries of the read tracker

Word == {"x", "y"}
Missing == <<"missing">>
Texts == {Missing, <<"x">>, <<"x", "x">>, <<"x", "y">>}

VARIABLES
  file,       \* Path -> text
  pathLock,   \* Path -> the call holding LockPath, or {}
  tracked,    \* paths of the MemoryReadTracker
  tcall,      \* ToolCall -> [op, path, at, text, ...]
  everRead,   \* paths some read has finished on
  overtaken   \* edits whose file a write replaced after they read it

toolVars == <<file, pathLock, tracked, tcall, everRead, overtaken>>

NotCalled == [op |-> "none", path |-> {}, at |-> "new", all |-> FALSE, old |-> "x", text |-> <<>>]

ToolsInit ==
  /\ file \in [Path -> Texts]
  /\ pathLock = [p \in Path |-> {}]
  /\ tracked = {} /\ everRead = {} /\ overtaken = {}
  /\ tcall = [c \in EditCall |-> NotCalled]

At(c, op, at) == tcall[c].op = op /\ tcall[c].at = at
ToolAt(c, at) == tcall' = [tcall EXCEPT ![c].at = at]

CallTool(c) ==
  /\ tcall[c] = NotCalled
  /\ \E op \in {"read", "edit", "write", "create"}, p \in Path, all \in BOOLEAN, old \in Word :
       /\ op # "edit" => ~all /\ old = "x"
       /\ tcall' = [tcall EXCEPT ![c] = [NotCalled EXCEPT !.op = op, !.path = {p}, !.at = "check",
                                          !.all = all, !.old = old]]
  /\ UNCHANGED <<file, pathLock, tracked, everRead, overtaken>>

PathOf(c) == CHOOSE p \in Path : tcall[c].path = {p}

---------------------------------------------------------------------------
(* Read *)

\* A full tracker is emptied before the new path is recorded.
RecordRead(p) ==
  IF MaxTracked > 0 /\ Cardinality(tracked) >= MaxTracked THEN {p} ELSE tracked \cup {p}

\* Stat, open and scan: a missing file, a directory and a failing scan are not
\* recorded, a truncated read is.
ReadFile(c) ==
  /\ At(c, "read", "check")
  /\ IF file[PathOf(c)] = Missing THEN UNCHANGED <<tracked, everRead>>
     ELSE \/ UNCHANGED <<tracked, everRead>>
          \/ /\ tracked' = RecordRead(PathOf(c))
             /\ everRead' = everRead \cup {PathOf(c)}
  /\ ToolAt(c, "done")
  /\ UNCHANGED <<file, pathLock, overtaken>>

---------------------------------------------------------------------------
(* Edit *)

\* A path that is denied or was not read, an empty or unchanged old string.
EditCheck(c) ==
  /\ At(c, "edit", "check")
  /\ \/ PathOf(c) \in tracked /\ ToolAt(c, "lock")
     \/ ToolAt(c, "done")
  /\ UNCHANGED <<file, pathLock, tracked, everRead, overtaken>>

\* An edit that never takes the lock.
LockPath_Free(c) ==
  /\ At(c, "edit", "lock")
  /\ ToolAt(c, "stat")
  /\ UNCHANGED <<file, pathLock, tracked, everRead, overtaken>>

LockPath(c) ==
  /\ At(c, "edit", "lock") /\ pathLock[PathOf(c)] = {}
  /\ pathLock' = [pathLock EXCEPT ![PathOf(c)] = {c}]
  /\ ToolAt(c, "stat")
  /\ UNCHANGED <<file, tracked, everRead, overtaken>>

Unlock(c) == pathLock' = [p \in Path |-> pathLock[p] \ {c}]

MatchesOf(text, w) == {i \in 1..Len(text) : text[i] = w}
Replaced(text, w, new, all) ==
  LET first == IF MatchesOf(text, w) = {} THEN 0
               ELSE CHOOSE i \in MatchesOf(text, w) : \A j \in MatchesOf(text, w) : i <= j
  IN [i \in 1..Len(text) |->
        IF i \in MatchesOf(text, w) /\ (all \/ i = first) THEN new ELSE text[i]]

\* Stat (a directory, a read-only or too large file ends it), read, count: no
\* match and an ambiguous one are errors.
EditRead(c) ==
  /\ At(c, "edit", "stat")
  /\ LET text == file[PathOf(c)]
         n == Cardinality(MatchesOf(text, tcall[c].old)) IN
     \/ /\ text # Missing /\ n > 0 /\ (n > 1 => tcall[c].all)
        /\ tcall' = [tcall EXCEPT ![c].at = "rename",
                       ![c].text = Replaced(text, tcall[c].old, c, tcall[c].all)]
        /\ UNCHANGED pathLock
     \/ ToolAt(c, "done") /\ Unlock(c)
  /\ overtaken' = overtaken \ {c}
  /\ UNCHANGED <<file, tracked, everRead>>

\* AtomicWriteFile, AtomicWriteInRoot: the rename takes place or the file
\* stays as it was and the temporary one is removed.
RenameOver(c, text) ==
  \/ file' = [file EXCEPT ![PathOf(c)] = text]
  \/ UNCHANGED file

EditRename(c) ==
  /\ At(c, "edit", "rename")
  /\ RenameOver(c, tcall[c].text)
  /\ ToolAt(c, "done") /\ Unlock(c)
  /\ UNCHANGED <<tracked, everRead, overtaken>>

---------------------------------------------------------------------------
(* Write *)

\* Stat: create_only refuses a file that exists.
WriteCheck(c) ==
  /\ tcall[c].op \in {"write", "create"} /\ tcall[c].at = "check"
  /\ IF tcall[c].op = "create" /\ file[PathOf(c)] # Missing
       THEN ToolAt(c, "done")
       ELSE \E at \in {"rename", "done"} : ToolAt(c, at)
  /\ UNCHANGED <<file, pathLock, tracked, everRead, overtaken>>

WriteRename(c) ==
  /\ tcall[c].op \in {"write", "create"} /\ tcall[c].at = "rename"
  /\ RenameOver(c, <<c>>)
  /\ overtaken' = IF file' = file THEN overtaken
                  ELSE overtaken \cup {d \in EditCall : At(d, "edit", "rename")
                                                        /\ tcall[d].path = tcall[c].path}
  /\ ToolAt(c, "done")
  /\ UNCHANGED <<pathLock, tracked, everRead>>

ToolsStep ==
  \E c \in EditCall :
    \/ CallTool(c) \/ ReadFile(c) \/ EditCheck(c) \/ LockPath(c) \/ EditRead(c)
    \/ EditRename(c) \/ WriteCheck(c) \/ WriteRename(c)

ToolsSpec == ToolsInit /\ [][ToolsStep]_toolVars

---------------------------------------------------------------------------
(* A file is changed only by whole replacements: an edit's is exactly the   *)
(* text it finds at that moment with its own word put in (every match, or   *)
(* the only one), so no other edit is undone by it, unless a write tool     *)
(* call came between its read and its rename; it is made only on a file     *)
(* that was read first, and while it holds the lock of the path.            *)
EditsApply ==
  [][\A c \in EditCall :
       (At(c, "edit", "rename") /\ tcall'[c].at = "done" /\ file' # file) =>
         LET p == PathOf(c) IN
         /\ c \notin overtaken =>
              /\ file'[p] = Replaced(file[p], tcall[c].old, c, tcall[c].all)
              /\ file[p] # Missing
              /\ \/ tcall[c].all
                 \/ Cardinality(MatchesOf(file[p], tcall[c].old)) = 1
         /\ p \in everRead
         /\ pathLock[p] = {c}
         /\ \A q \in Path \ {p} : file'[q] = file[q]]_toolVars
=============================================================================
