------------------------- MODULE InterruptFileStore -------------------------
(***************************************************************************)
(* interrupt.FileStore: one JSON file per record under a root directory    *)
(* that several FileStore instances (processes) share, each used by        *)
(* several goroutines.  Every mutation takes the instance's mutex for the  *)
(* id, then an OS lock on <id>.lock, re-checks its context, reads the      *)
(* file, applies the shared transition logic and replaces the file by a    *)
(* temporary one.  A process may crash between any two of these steps: the *)
(* kernel drops its file locks, a half-written temporary file stays.       *)
(*                                                                         *)
(* The module shows that this implements the atomic InterruptStore.        *)
(***************************************************************************)
EXTENDS InterruptLogic, FiniteSets

CONSTANTS
  RecordId, LeaseTTL, MaxBatch, MaxTime, MaxRevision,  \* as in InterruptStore
  Caller,       \* goroutines that call the store
  Instance,     \* FileStore instances, one per process
  InstanceOf,   \* the instance each caller uses
  NoCaller,     \* an unlocked lock
  Partial,      \* the content of a temporary file that is not complete
  MaxCalls      \* bound: calls made in all

\* A call adds one revision at most, so that the bound on calls keeps every
\* revision within its own.
ASSUME FileStoreAssumption ==
  /\ InstanceOf \in [Caller -> Instance]
  /\ NoCaller \notin Caller
  /\ IsFiniteSet(Caller)
  /\ Absent \notin Record
  /\ LeaseTTL \subseteq Nat
  /\ MaxBatch \in Nat
  /\ MaxTime \in Nat \ {0}
  /\ MaxCalls \in Nat
  /\ MaxRevision \in Nat
  /\ MaxCalls <= MaxRevision

VARIABLES
  files,     \* <id>.json: a record or Absent
  tmp,       \* <id>.json.tmp: a record, Partial or Absent
  mutex,     \* FileStore.locks: the caller holding the in-process mutex
  flock,     \* the caller whose descriptor holds the lock on <id>.lock
  pc,        \* where each caller is in its call
  req,       \* the call it is making
  cur,       \* the record it read
  next,      \* what it is about to write: record and committed calls
  cancelled, \* callers whose context ended before their last ctx check
  calls,     \* calls made so far
  minted,    \* ids generateID has returned
  written,   \* ids whose record file was ever put in place
  now,
  granted, credited   \* what callers were told, as in InterruptStore

locks == <<mutex, flock>>
disk == <<files, tmp, written>>
told == <<granted, credited>>
locals == <<req, cur, next>>
vars == <<files, tmp, mutex, flock, pc, req, cur, next, cancelled, calls, minted,
          written, now, granted, credited>>

-----------------------------------------------------------------------------
Batches == UNION {[1..n -> Decision] : n \in 1..MaxBatch}

Request ==
  [op : {"create"}, id : RecordId, meta : Meta, pending : (SUBSET ToolCall) \ {{}}]
    \cup [op : {"submit"}, id : RecordId, ds : Batches]
    \cup [op : {"acquire"}, id : RecordId, owner : Owner, ttl : LeaseTTL]
    \cup [op : {"release", "complete"}, id : RecordId, owner : Owner]
    \cup [op : {"delete"}, id : RecordId]

NoRequest == [op |-> "none"]
NoWrite == [rec |-> Absent, committed |-> {}]

Queueing == {"mutex", "flock"}
Inside == {"read", "apply", "open", "encode", "rename", "remove"}
Unwinding == {"unflock", "unlock"}

TypeOK ==
  /\ files \in [RecordId -> Record \cup {Absent}]
  /\ tmp \in [RecordId -> Record \cup {Absent, Partial}]
  /\ mutex \in [Instance -> [RecordId -> Caller \cup {NoCaller}]]
  /\ flock \in [RecordId -> Caller \cup {NoCaller}]
  /\ pc \in [Caller -> {"idle", "recheck"} \cup Queueing \cup Inside \cup Unwinding]
  /\ req \in [Caller -> Request \cup {NoRequest}]
  /\ cur \in [Caller -> Record \cup {Absent}]
  /\ next \in [Caller -> [rec : Record \cup {Absent}, committed : SUBSET ToolCall]]
  /\ cancelled \in SUBSET Caller
  /\ calls \in 0..MaxCalls
  /\ minted \in SUBSET RecordId
  /\ written \in SUBSET minted
  /\ now \in 1..MaxTime
  /\ granted \in [Owner -> [RecordId -> Nat]]
  /\ credited \in [RecordId -> [ToolCall -> Nat]]

Init ==
  /\ files = [id \in RecordId |-> Absent]
  /\ tmp = [id \in RecordId |-> Absent]
  /\ mutex = [i \in Instance |-> [id \in RecordId |-> NoCaller]]
  /\ flock = [id \in RecordId |-> NoCaller]
  /\ pc = [c \in Caller |-> "idle"]
  /\ req = [c \in Caller |-> NoRequest]
  /\ cur = [c \in Caller |-> Absent]
  /\ next = [c \in Caller |-> NoWrite]
  /\ cancelled = {}
  /\ calls = 0
  /\ minted = {}
  /\ written = {}
  /\ now = 1
  /\ granted = [o \in Owner |-> [id \in RecordId |-> ZeroTime]]
  /\ credited = [id \in RecordId |-> [k \in ToolCall |-> 0]]

Goto(c, label) == pc' = [pc EXCEPT ![c] = label]
Id(c) == req[c].id

-----------------------------------------------------------------------------
\* Entering: the first context check, the mutex, the file lock, the re-check.

\* A call with a live context.  Create mints its id before it locks; the
\* other operations address an id whose record was once visible, from
\* Create's return or from List.
Call(c, r) ==
  /\ pc[c] = "idle"
  /\ calls < MaxCalls
  /\ IF r.op = "create"
     THEN r.id \notin minted /\ minted' = minted \cup {r.id}
     ELSE r.id \in written /\ UNCHANGED minted
  /\ req' = [req EXCEPT ![c] = r]
  /\ calls' = calls + 1
  /\ Goto(c, "mutex")
  /\ UNCHANGED <<disk, locks, cur, next, cancelled, now, told>>

\* Wrong variant: the in-process mutex is all.
LockLocal_NoFileLock(c) ==
  /\ pc[c] = "mutex"
  /\ mutex[InstanceOf[c]][Id(c)] = NoCaller
  /\ mutex' = [mutex EXCEPT ![InstanceOf[c]][Id(c)] = c]
  /\ Goto(c, "recheck")
  /\ UNCHANGED <<disk, flock, locals, cancelled, calls, minted, now, told>>

LockLocal(c) ==
  /\ pc[c] = "mutex"
  /\ mutex[InstanceOf[c]][Id(c)] = NoCaller
  /\ mutex' = [mutex EXCEPT ![InstanceOf[c]][Id(c)] = c]
  /\ Goto(c, "flock")
  /\ UNCHANGED <<disk, flock, locals, cancelled, calls, minted, now, told>>

LockFile(c) ==
  /\ pc[c] = "flock"
  /\ flock[Id(c)] = NoCaller
  /\ flock' = [flock EXCEPT ![Id(c)] = c]
  /\ Goto(c, "recheck")
  /\ UNCHANGED <<disk, mutex, locals, cancelled, calls, minted, now, told>>

\* Wrong variant: the early return forgets the mutex.
LockFileFails_KeepMutex(c) ==
  /\ pc[c] = "flock"
  /\ Goto(c, "idle")
  /\ UNCHANGED <<disk, locks, locals, cancelled, calls, minted, now, told>>

\* acquireFileLock returns an error: the lock file cannot be opened or
\* locked, or the lock is held and the context ended or the wait timed out.
LockFileFails(c) ==
  /\ pc[c] = "flock"
  /\ Goto(c, "unlock")
  /\ UNCHANGED <<disk, locks, locals, cancelled, calls, minted, now, told>>

\* Wrong variant: the context is not looked at again under the lock.
Recheck_Skipped(c) ==
  /\ pc[c] = "recheck"
  /\ Goto(c, IF req[c].op = "delete" THEN "remove" ELSE "read")
  /\ UNCHANGED <<disk, locks, locals, cancelled, calls, minted, now, told>>

Recheck(c) ==
  /\ pc[c] = "recheck"
  /\ IF c \in cancelled THEN Goto(c, "unflock")
     ELSE IF req[c].op = "delete" THEN Goto(c, "remove")
     ELSE Goto(c, "read")
  /\ UNCHANGED <<disk, locks, locals, cancelled, calls, minted, now, told>>

-----------------------------------------------------------------------------
\* The critical section.

ReadRecord(c) ==
  /\ pc[c] = "read"
  /\ cur' = [cur EXCEPT ![c] = files[Id(c)]]
  /\ Goto(c, "apply")
  /\ UNCHANGED <<disk, locks, req, next, cancelled, calls, minted, now, told>>

\* The transition fn computes from the record read; an error aborts the
\* call without a write, except that SubmitDecisions writes the prefix it
\* committed (and rewrites the record when it committed nothing new).
Transition(r, rec) ==
  IF r.op = "create" THEN Ok(NewRecord(r.meta, r.pending))
  ELSE IF rec = Absent THEN Fail(rec, "ErrNotFound")
  ELSE CASE r.op = "submit" ->
              LET a == ApplyDecisions(rec, r.ds)
              IN  IF a.err # "nil" /\ a.committed = {} THEN Fail(rec, a.err)
                  ELSE Ok(a.rec)
         [] r.op = "acquire"  -> AcquireLeaseOn(rec, r.owner, r.ttl, now)
         [] r.op = "release"  -> ReleaseLeaseOn(rec, r.owner)
         [] r.op = "complete" -> CompleteOn(rec, r.owner)

CommittedBy(r, rec) ==
  IF r.op = "submit" THEN ApplyDecisions(rec, r.ds).committed ELSE {}

Apply(c) ==
  /\ pc[c] = "apply"
  /\ LET t == Transition(req[c], cur[c])
     IN  \/ /\ t.err # "nil"
            /\ Goto(c, "unflock")
            /\ UNCHANGED next
         \/ /\ t.err = "nil"
            /\ next' = [next EXCEPT ![c] =
                 [rec |-> t.rec, committed |-> CommittedBy(req[c], cur[c])]]
            /\ Goto(c, "open")
  /\ UNCHANGED <<disk, locks, req, cur, cancelled, calls, minted, now, told>>

\* Wrong variant: the temporary file is renamed before it is written.
OpenTmp_RenameEarly(c) ==
  /\ pc[c] = "open"
  /\ tmp' = [tmp EXCEPT ![Id(c)] = Partial]
  /\ Goto(c, "rename")
  /\ UNCHANGED <<files, written, locks, locals, cancelled, calls, minted, now, told>>

\* writeRecord: create or truncate the temporary file, encode and sync it,
\* rename it over the record.
OpenTmp(c) ==
  /\ pc[c] = "open"
  /\ tmp' = [tmp EXCEPT ![Id(c)] = Partial]
  /\ Goto(c, "encode")
  /\ UNCHANGED <<files, written, locks, locals, cancelled, calls, minted, now, told>>

EncodeTmp(c) ==
  /\ pc[c] = "encode"
  /\ tmp' = [tmp EXCEPT ![Id(c)] = next[c].rec]
  /\ Goto(c, "rename")
  /\ UNCHANGED <<files, written, locks, locals, cancelled, calls, minted, now, told>>

\* What the caller is told if the write goes through.
Told(c) ==
  LET r == req[c] IN
  /\ granted' =
       CASE r.op = "acquire" -> [granted EXCEPT ![r.owner][r.id] = next[c].rec.expires]
         [] r.op \in {"release", "complete"} -> [granted EXCEPT ![r.owner][r.id] = ZeroTime]
         [] OTHER -> granted
  /\ credited' = [credited EXCEPT ![r.id] = [k \in ToolCall |->
       IF k \in next[c].committed THEN credited[r.id][k] + 1
       ELSE credited[r.id][k]]]

Rename(c) ==
  /\ pc[c] = "rename"
  /\ files' = [files EXCEPT ![Id(c)] = tmp[Id(c)]]
  /\ tmp' = [tmp EXCEPT ![Id(c)] = Absent]
  /\ written' = written \cup {Id(c)}
  /\ Told(c)
  /\ Goto(c, "unflock")
  /\ UNCHANGED <<locks, locals, cancelled, calls, minted, now>>

\* An I/O error in writeRecord removes the temporary file.
WriteFails(c) ==
  /\ pc[c] \in {"open", "encode", "rename"}
  /\ tmp' = [tmp EXCEPT ![Id(c)] = IF pc[c] = "open" THEN @ ELSE Absent]
  /\ Goto(c, "unflock")
  /\ UNCHANGED <<files, written, locks, locals, cancelled, calls, minted, now, told>>

RemoveFile(c) ==
  /\ pc[c] = "remove"
  /\ files' = [files EXCEPT ![Id(c)] = Absent]
  /\ Goto(c, "unflock")
  /\ UNCHANGED <<tmp, written, locks, locals, cancelled, calls, minted, now, told>>

-----------------------------------------------------------------------------
\* Leaving, in the order of the deferred calls; the lock file stays.

UnlockFile(c) ==
  /\ pc[c] = "unflock"
  /\ flock' = [flock EXCEPT ![Id(c)] = NoCaller]
  /\ Goto(c, "unlock")
  /\ UNCHANGED <<disk, mutex, locals, cancelled, calls, minted, now, told>>

UnlockLocal(c) ==
  /\ pc[c] = "unlock"
  /\ mutex' = [mutex EXCEPT ![InstanceOf[c]][Id(c)] = NoCaller]
  /\ req' = [req EXCEPT ![c] = NoRequest]
  /\ cur' = [cur EXCEPT ![c] = Absent]
  /\ next' = [next EXCEPT ![c] = NoWrite]
  /\ cancelled' = cancelled \ {c}
  /\ Goto(c, "idle")
  /\ UNCHANGED <<disk, flock, calls, minted, now, told>>

-----------------------------------------------------------------------------
\* The environment.

\* A context that ends after the re-check is not looked at any more.
Cancel(c) ==
  /\ pc[c] \in Queueing \cup {"recheck"}
  /\ c \notin cancelled
  /\ cancelled' = cancelled \cup {c}
  /\ UNCHANGED <<disk, locks, pc, locals, calls, minted, now, told>>

\* The process of instance i dies and is started again: its goroutines and
\* mutexes are gone and the kernel drops its file locks.
Crash(i) ==
  LET mine == {c \in Caller : InstanceOf[c] = i} IN
  /\ \E c \in mine : pc[c] # "idle"
  /\ pc' = [c \in Caller |-> IF c \in mine THEN "idle" ELSE pc[c]]
  /\ req' = [c \in Caller |-> IF c \in mine THEN NoRequest ELSE req[c]]
  /\ cur' = [c \in Caller |-> IF c \in mine THEN Absent ELSE cur[c]]
  /\ next' = [c \in Caller |-> IF c \in mine THEN NoWrite ELSE next[c]]
  /\ mutex' = [mutex EXCEPT ![i] = [id \in RecordId |-> NoCaller]]
  /\ flock' = [id \in RecordId |-> IF flock[id] \in mine THEN NoCaller ELSE flock[id]]
  /\ cancelled' = cancelled \ mine
  /\ UNCHANGED <<disk, calls, minted, now, told>>

Tick ==
  /\ now < MaxTime
  /\ now' = now + 1
  /\ UNCHANGED <<disk, locks, pc, locals, cancelled, calls, minted, told>>

Progress(c) ==
  \/ LockLocal(c) \/ LockFile(c) \/ LockFileFails(c) \/ Recheck(c)
  \/ ReadRecord(c) \/ Apply(c) \/ OpenTmp(c) \/ EncodeTmp(c) \/ Rename(c)
  \/ WriteFails(c) \/ RemoveFile(c) \/ UnlockFile(c) \/ UnlockLocal(c)

Next ==
  \/ \E c \in Caller :
       (\E r \in Request : Call(c, r)) \/ Progress(c) \/ Cancel(c)
  \/ \E i \in Instance : Crash(i)
  \/ Tick

Spec == Init /\ [][Next]_vars

-----------------------------------------------------------------------------
\* Properties

\* The directory implements the atomic store: every rename and removal is
\* one operation of InterruptStore on the record current at that moment, no
\* update is lost and no crash exposes a torn or half-applied record.
Abstract == INSTANCE InterruptStore WITH store <- files, minted <- written

Refinement == Abstract!Init /\ [][Abstract!Next]_<<files, written, now, granted, credited>>

\* A call whose context ended while it queued for either lock never gets to
\* touch the record (the second ctx check in withExclusive).
CancelledInQueueNeverWrites ==
  \A c \in cancelled : pc[c] \notin Inside

\* Whoever holds a lock is still on its way through a call: neither a crashed
\* process, a cancelled waiter nor an I/O error leaves a lock behind that
\* would block the record for good.
LocksHeldByCallers ==
  \A id \in RecordId :
    /\ flock[id] # NoCaller =>
         pc[flock[id]] \in Inside \cup {"recheck", "unflock"} /\ Id(flock[id]) = id
    /\ \A i \in Instance :
         LET c == mutex[i][id]
         IN  c # NoCaller => pc[c] \notin {"idle", "mutex"} /\ Id(c) = id /\ InstanceOf[c] = i

\* A call that was cancelled, crashed or failed on its way through the locks
\* of withExclusive neither touches the record nor keeps a lock.
CallersSound == CancelledInQueueNeverWrites /\ LocksHeldByCallers
=============================================================================
