-------------------------- MODULE PersistenceProofs -------------------------
(***************************************************************************)
(* Proofs about what is kept outside a run, for any number of processes,   *)
(* goroutines, records, events and calls: the directory of record files    *)
(* implements the atomic InterruptStore; the vector index follows the      *)
(* session tree; the hooks bring every event they accepted to its store;   *)
(* the stores of a session directory keep what they acknowledged.  The     *)
(* four share no variable; each has an inductive invariant of its own.     *)
(***************************************************************************)
EXTENDS InterruptFileStore, InterruptLogicProofs, TreeIndex, Hooks, SessionFiles,
        FiniteSetTheorems

-----------------------------------------------------------------------------
\* The inductive invariant.

\* Where a caller holds the file lock of its record.
Locked == Inside \cup {"recheck", "unflock"}

\* Where it may still write the record.
Writing == {"mutex", "flock", "recheck"} \cup Inside

Writers == {c \in Caller : pc[c] \in Writing}

\* A caller on its way has a request.
Requests ==
  \A c \in Caller : IF pc[c] = "idle" THEN req[c] = NoRequest ELSE req[c] \in Request

\* The file lock is exclusive: it is the caller's own between flock and unflock.
FileLocked == \A c \in Caller : pc[c] \in Locked => flock[Id(c)] = c

\* An id is given to one Create only, and has a file only when it renamed.
FreshCreates ==
  /\ \A c \in Writers :
       IF req[c].op = "create" THEN Id(c) \in minted \ written ELSE Id(c) \in written
  /\ \A c, d \in Writers :
       (req[c].op = "create" /\ req[d].op = "create" /\ Id(c) = Id(d)) => c = d

\* new is what request r makes of record rec, at some time until t.
PreparedBy(r, rec, new, t) ==
  CASE r.op = "create" ->
         new.rec = NewRecord(r.meta, r.pending) /\ new.committed = {}
    [] r.op = "submit" ->
         /\ rec # Absent
         /\ new.rec = ApplyDecisions(rec, r.ds).rec
         /\ new.committed = ApplyDecisions(rec, r.ds).committed
    [] r.op = "acquire" ->
         /\ rec # Absent /\ new.committed = {}
         /\ \E u \in 1..t :
              /\ AcquireLeaseOn(rec, r.owner, r.ttl, u).err = "nil"
              /\ new.rec = AcquireLeaseOn(rec, r.owner, r.ttl, u).rec
    [] r.op = "release" ->
         /\ rec # Absent /\ new.committed = {}
         /\ ReleaseLeaseOn(rec, r.owner).err = "nil"
         /\ new.rec = ReleaseLeaseOn(rec, r.owner).rec
    [] r.op = "complete" ->
         /\ rec # Absent /\ new.committed = {}
         /\ CompleteOn(rec, r.owner).err = "nil"
         /\ new.rec = CompleteOn(rec, r.owner).rec
    [] OTHER -> FALSE

\* What caller c is about to write is one transition of the record it read, at
\* a time that is not in the future.
Prepared(c) == PreparedBy(req[c], cur[c], next[c], now)

\* Nobody changes the record under the lock: what a caller read is what is
\* there, and what it renames is what it computed from that.
ReadCurrent ==
  \A c \in Caller :
    /\ pc[c] \in {"read", "apply", "open", "encode", "rename"} => req[c].op # "delete"
    /\ pc[c] \in {"apply", "open", "encode", "rename"} => cur[c] = files[Id(c)]
    /\ pc[c] \in {"open", "encode", "rename"} => Prepared(c)
    /\ pc[c] = "rename" => tmp[Id(c)] = next[c].rec

\* Every revision was paid for by a call, and every writer still has its own.
RevisionsPaid ==
  /\ Cardinality(Writers) <= calls
  /\ \A id \in RecordId : files[id] # Absent => files[id].rev + Cardinality(Writers) <= calls

FileIInv ==
  /\ TypeOK
  /\ Requests
  /\ FileLocked
  /\ LocksHeldByCallers
  /\ CancelledInQueueNeverWrites
  /\ FreshCreates
  /\ ReadCurrent
  /\ RevisionsPaid

-----------------------------------------------------------------------------
\* Lemmas about requests and transitions.

\* A request has the fields of its operation.
LEMMA RequestFacts ==
  ASSUME NEW r \in Request
  PROVE  /\ r.id \in RecordId
         /\ r.op \in {"create", "submit", "acquire", "release", "complete", "delete"}
         /\ r.op = "create" => r.meta \in Meta /\ r.pending \in SUBSET ToolCall /\ r.pending # {}
         /\ r.op = "submit" => r.ds \in Batches
         /\ r.op = "acquire" => r.owner \in Owner /\ r.ttl \in LeaseTTL
         /\ r.op \in {"release", "complete"} => r.owner \in Owner
         /\ r # NoRequest
BY DEF Request, NoRequest

\* A batch is a sequence of decisions.
LEMMA BatchIsSeq ==
  ASSUME NEW ds \in Batches
  PROVE  ds \in Seq(Decision)
<1>1. PICK n \in 1..MaxBatch : ds \in [1..n -> Decision]
  BY DEF Batches
<1>2. n \in Nat
  BY FileStoreAssumption
<1> QED BY <1>1, <1>2

\* applyDecisions returns a record whose revision is the old one or the next.
LEMMA ApplyFacts ==
  ASSUME NEW rec \in Record, NEW ds \in Batches
  PROVE  LET a == ApplyDecisions(rec, ds)
         IN  /\ a.rec \in Record
             /\ a.committed \in SUBSET ToolCall
             /\ a.rec.rev \in {rec.rev, rec.rev + 1}
             /\ a.committed = {} => a.rec = rec
<1>1. ds \in Seq(Decision)
  BY BatchIsSeq
<1>2. /\ CommitAudit(rec, MergedDecisions(rec, ds)) \in Record
      /\ CommitAudit(rec, MergedDecisions(rec, ds)).rev = rec.rev + 1
  BY <1>1, CommitAuditFacts
<1>3. Committed(rec, ds) \subseteq ToolCall
  BY DEF Committed
<1> QED BY <1>2, <1>3 DEF ApplyDecisions

\* What a request makes of a record is a record, one revision further at most.
LEMMA PreparedFacts ==
  ASSUME NEW r \in Request, NEW rec \in Record \cup {Absent}, NEW new, NEW t \in Nat,
         PreparedBy(r, rec, new, t)
  PROVE  /\ r.op \in {"create", "submit", "acquire", "release", "complete"}
         /\ new.rec \in Record
         /\ new.committed \in SUBSET ToolCall
         /\ r.op = "create" => new.rec.rev = 1
         /\ r.op # "create" => rec \in Record /\ new.rec.rev \in {rec.rev, rec.rev + 1}
<1>1. r.op \in {"create", "submit", "acquire", "release", "complete"}
  BY RequestFacts DEF PreparedBy
<1>2. CASE r.op = "create"
  <2>1. new.rec = NewRecord(r.meta, r.pending) /\ new.committed = {}
    BY <1>2 DEF PreparedBy
  <2>2. r.meta \in Meta /\ r.pending \in SUBSET ToolCall /\ r.pending # {}
    BY <1>2, RequestFacts
  <2>3. NewRecord(r.meta, r.pending).rev = 1
    BY DEF NewRecord
  <2> QED BY <1>1, <1>2, <2>1, <2>2, <2>3, NewRecordFacts
<1>3. ASSUME r.op # "create" PROVE rec \in Record
  BY <1>1, <1>3 DEF PreparedBy
<1>4. CASE r.op = "submit"
  BY <1>1, <1>3, <1>4, RequestFacts, ApplyFacts DEF PreparedBy
<1>5. CASE r.op = "acquire"
  <2>1. PICK u \in 1..t : /\ AcquireLeaseOn(rec, r.owner, r.ttl, u).err = "nil"
                          /\ new.rec = AcquireLeaseOn(rec, r.owner, r.ttl, u).rec
    BY <1>5 DEF PreparedBy
  <2>2. r.ttl \in Nat /\ r.owner \in Owner
    BY <1>5, RequestFacts, FileStoreAssumption
  <2>3. u \in Nat /\ new.committed = {}
    BY <1>5 DEF PreparedBy
  <2> QED BY <1>1, <1>3, <1>5, <2>1, <2>2, <2>3, AcquireFacts
<1>6. CASE r.op \in {"release", "complete"}
  <2>1. r.owner \in Owner /\ new.committed = {} /\ rec \in Record
    BY <1>3, <1>6, RequestFacts DEF PreparedBy
  <2>2. \E s \in {"ready", "completed"} : new.rec = EndLease(rec, s)
    BY <1>6, <2>1, ReleaseFacts, CompleteFacts DEF PreparedBy
  <2> QED BY <1>1, <1>3, <1>6, <2>1, <2>2, EndFacts
<1> QED BY <1>1, <1>2, <1>4, <1>5, <1>6

\* A transition that succeeds prepares a write.
LEMMA TransitionFacts ==
  ASSUME NEW r \in Request, r.op # "delete", NEW rec \in Record \cup {Absent},
         now \in Nat \ {0}, Transition(r, rec).err = "nil"
  PROVE  PreparedBy(r, rec, [rec |-> Transition(r, rec).rec, committed |-> CommittedBy(r, rec)], now)
<1> DEFINE new == [rec |-> Transition(r, rec).rec, committed |-> CommittedBy(r, rec)]
<1>1. CASE r.op = "create"
  BY <1>1 DEF Transition, CommittedBy, PreparedBy, Ok
<1>2. ASSUME r.op # "create" PROVE rec \in Record /\ rec # Absent
  BY <1>2, FileStoreAssumption DEF Transition, Fail
<1>3. CASE r.op = "submit"
  <2> DEFINE a == ApplyDecisions(rec, r.ds)
  <2>1. ~(a.err # "nil" /\ a.committed = {}) /\ Transition(r, rec) = Ok(a.rec)
    <3>1. Transition(r, rec) = IF a.err # "nil" /\ a.committed = {} THEN Fail(rec, a.err) ELSE Ok(a.rec)
      BY <1>2, <1>3 DEF Transition
    <3> HIDE DEF a
    <3> QED BY <3>1 DEF Fail, Ok
  <2> QED BY <1>2, <1>3, <2>1 DEF CommittedBy, PreparedBy, Ok
<1>4. CASE r.op = "acquire"
  <2>1. Transition(r, rec) = AcquireLeaseOn(rec, r.owner, r.ttl, now) /\ now \in 1..now
    BY <1>2, <1>4 DEF Transition
  <2> QED BY <1>2, <1>4, <2>1 DEF CommittedBy, PreparedBy
<1>5. CASE r.op = "release"
  <2>1. Transition(r, rec) = ReleaseLeaseOn(rec, r.owner)
    BY <1>2, <1>5 DEF Transition
  <2> QED BY <1>2, <1>5, <2>1 DEF CommittedBy, PreparedBy
<1>6. CASE r.op = "complete"
  <2>1. Transition(r, rec) = CompleteOn(rec, r.owner)
    BY <1>2, <1>6 DEF Transition
  <2> QED BY <1>2, <1>6, <2>1 DEF CommittedBy, PreparedBy
<1> QED BY <1>1, <1>3, <1>4, <1>5, <1>6, RequestFacts

\* A prepared write stays one while the clock moves on.
LEMMA PreparedLater ==
  ASSUME NEW r, NEW rec, NEW new, NEW t \in Nat, NEW u \in Nat, t <= u,
         PreparedBy(r, rec, new, t)
  PROVE  PreparedBy(r, rec, new, u)
BY DEF PreparedBy

-----------------------------------------------------------------------------
\* The invariant holds initially.
LEMMA InitFileIInv == Init => FileIInv
<1> SUFFICES ASSUME Init PROVE FileIInv
  OBVIOUS
<1>1. TypeOK
  <2>1. now \in 1..MaxTime /\ calls \in 0..MaxCalls
    BY FileStoreAssumption DEF Init
  <2> QED BY <2>1 DEF Init, TypeOK, NoWrite, ZeroTime
<1>2. Writers = {} /\ Cardinality({}) = 0
  BY FS_EmptySet DEF Init, Writers, Writing, Inside
<1>3. Requests /\ FileLocked /\ ReadCurrent /\ CancelledInQueueNeverWrites
  BY DEF Init, Requests, FileLocked, ReadCurrent, CancelledInQueueNeverWrites, Locked, Inside
<1>4. LocksHeldByCallers
  BY DEF Init, LocksHeldByCallers
<1>5. FreshCreates /\ RevisionsPaid
  BY <1>2 DEF Init, FreshCreates, RevisionsPaid
<1> QED BY <1>1, <1>3, <1>4, <1>5 DEF FileIInv

-----------------------------------------------------------------------------
\* A caller on its way has a well-formed request.
LEMMA CallerFacts ==
  ASSUME FileIInv, NEW c \in Caller, pc[c] # "idle"
  PROVE  req[c] \in Request /\ Id(c) \in RecordId
BY RequestFacts DEF FileIInv, Requests, Id

\* Every step keeps the types.
LEMMA StepTypeOK == FileIInv /\ [Next]_vars => TypeOK'
<1> SUFFICES ASSUME FileIInv, [Next]_vars PROVE TypeOK'
  OBVIOUS
<1> USE DEF FileIInv, disk, locks, told, locals
<1>1. ASSUME NEW c \in Caller, NEW r \in Request, Call(c, r)
      PROVE  TypeOK'
  <2>1. calls' \in 0..MaxCalls
    BY <1>1, FileStoreAssumption DEF Call, TypeOK
  <2>2. minted' \in SUBSET RecordId /\ written' \in SUBSET minted'
    BY <1>1, RequestFacts DEF Call, TypeOK
  <2> QED BY <1>1, <2>1, <2>2 DEF Call, TypeOK, Goto, Queueing
<1>2. ASSUME NEW c \in Caller, LockLocal(c)
      PROVE  TypeOK'
  BY <1>2 DEF LockLocal, Goto, TypeOK, Requests, Queueing, Inside, Unwinding, NoWrite, NoRequest, Id
<1>3. ASSUME NEW c \in Caller, LockFile(c)
      PROVE  TypeOK'
  BY <1>3 DEF LockFile, Goto, TypeOK, Requests, Queueing, Inside, Unwinding, NoWrite, NoRequest, Id
<1>4. ASSUME NEW c \in Caller, LockFileFails(c)
      PROVE  TypeOK'
  BY <1>4 DEF LockFileFails, Goto, TypeOK, Requests, Queueing, Inside, Unwinding, NoWrite, NoRequest, Id
<1>5. ASSUME NEW c \in Caller, Recheck(c)
      PROVE  TypeOK'
  BY <1>5 DEF Recheck, Goto, TypeOK, Requests, Queueing, Inside, Unwinding, NoWrite, NoRequest, Id
<1>6. ASSUME NEW c \in Caller, ReadRecord(c)
      PROVE  TypeOK'
  BY <1>6, CallerFacts DEF ReadRecord, Goto, TypeOK, Requests, Queueing, Inside, Unwinding, NoWrite, NoRequest, Id
<1>7. ASSUME NEW c \in Caller, OpenTmp(c)
      PROVE  TypeOK'
  BY <1>7 DEF OpenTmp, Goto, TypeOK, Requests, Queueing, Inside, Unwinding, NoWrite, NoRequest, Id
<1>8. ASSUME NEW c \in Caller, EncodeTmp(c)
      PROVE  TypeOK'
  BY <1>8 DEF EncodeTmp, Goto, TypeOK, Requests, Queueing, Inside, Unwinding, NoWrite, NoRequest, Id
<1>9. ASSUME NEW c \in Caller, WriteFails(c)
      PROVE  TypeOK'
  BY <1>9 DEF WriteFails, Goto, TypeOK, Requests, Queueing, Inside, Unwinding, NoWrite, NoRequest, Id
<1>10. ASSUME NEW c \in Caller, RemoveFile(c)
      PROVE  TypeOK'
  BY <1>10 DEF RemoveFile, Goto, TypeOK, Requests, Queueing, Inside, Unwinding, NoWrite, NoRequest, Id
<1>11. ASSUME NEW c \in Caller, UnlockFile(c)
      PROVE  TypeOK'
  BY <1>11 DEF UnlockFile, Goto, TypeOK, Requests, Queueing, Inside, Unwinding, NoWrite, NoRequest, Id
<1>12. ASSUME NEW c \in Caller, UnlockLocal(c)
      PROVE  TypeOK'
  BY <1>12 DEF UnlockLocal, Goto, TypeOK, Requests, Queueing, Inside, Unwinding, NoWrite, NoRequest, Id
<1>13. ASSUME NEW c \in Caller, Cancel(c)
      PROVE  TypeOK'
  BY <1>13 DEF Cancel, Goto, TypeOK, Requests, Queueing, Inside, Unwinding, NoWrite, NoRequest, Id
<1>14. CASE Tick \/ UNCHANGED vars
  BY <1>14, FileStoreAssumption DEF Tick, vars, TypeOK
<1>15. ASSUME NEW c \in Caller, Apply(c)
      PROVE  TypeOK'
  <2> DEFINE t == Transition(req[c], cur[c])
  <2>1. CASE t.err # "nil"
    BY <1>15, <2>1 DEF Apply, Goto, TypeOK, Unwinding
  <2>2. CASE t.err = "nil"
    <3> DEFINE new == [rec |-> t.rec, committed |-> CommittedBy(req[c], cur[c])]
    <3>1. /\ req[c] \in Request /\ req[c].op # "delete"
          /\ cur[c] \in Record \cup {Absent} /\ now \in Nat \ {0}
      BY <1>15, CallerFacts DEF Apply, ReadCurrent, TypeOK
    <3>2. new.rec \in Record /\ new.committed \in SUBSET ToolCall
      BY <2>2, <3>1, TransitionFacts, PreparedFacts
    <3>3. new \in [rec : Record \cup {Absent}, committed : SUBSET ToolCall]
      BY <3>2
    <3>4. next' = [next EXCEPT ![c] = new] /\ pc' = [pc EXCEPT ![c] = "open"]
      BY <1>15, <2>2 DEF Apply, Goto
    <3> HIDE DEF new, t
    <3> QED BY <1>15, <3>3, <3>4 DEF Apply, TypeOK, Inside
  <2> QED BY <2>1, <2>2
<1>16. ASSUME NEW c \in Caller, Rename(c)
      PROVE  TypeOK'
  <2>1. /\ req[c] \in Request /\ Id(c) \in RecordId /\ Prepared(c)
        /\ tmp[Id(c)] = next[c].rec
    BY <1>16, CallerFacts DEF Rename, ReadCurrent
  <2>2. next[c].rec \in Record /\ next[c].rec.expires \in Nat
    <3>1. cur[c] \in Record \cup {Absent} /\ now \in Nat
      BY DEF TypeOK
    <3>2. next[c].rec \in Record
      BY <2>1, <3>1, PreparedFacts DEF Prepared
    <3> QED BY <3>2 DEF Record
  <2>3. /\ files' \in [RecordId -> Record \cup {Absent}]
        /\ tmp' \in [RecordId -> Record \cup {Absent, Partial}]
    BY <1>16, <2>1, <2>2 DEF Rename, TypeOK
  <2>4. written' \in SUBSET minted'
    <3>1. c \in Writers
      BY <1>16 DEF Rename, Writers, Writing, Inside
    <3>2. Id(c) \in minted
      BY <3>1 DEF FreshCreates, TypeOK
    <3> QED BY <1>16, <3>2 DEF Rename, TypeOK
  <2>5. granted' \in [Owner -> [RecordId -> Nat]]
    BY <1>16, <2>1, <2>2, RequestFacts DEF Rename, Told, TypeOK, Id, ZeroTime
  <2>6. credited' \in [RecordId -> [ToolCall -> Nat]]
    BY <1>16, <2>1, RequestFacts DEF Rename, Told, TypeOK, Id
  <2> QED BY <1>16, <2>3, <2>4, <2>5, <2>6 DEF Rename, Goto, TypeOK, Unwinding
<1>17. ASSUME NEW i \in Instance, Crash(i)
      PROVE  TypeOK'
  BY <1>17 DEF Crash, TypeOK, NoWrite
<1> QED
  BY <1>1, <1>2, <1>3, <1>4, <1>5, <1>6, <1>7, <1>8, <1>9, <1>10, <1>11, <1>12, <1>13,
     <1>14, <1>15, <1>16, <1>17 DEF Next, Progress

\* A caller has a request from its Call to its return.
LEMMA StepRequests == FileIInv /\ [Next]_vars => Requests'
<1> SUFFICES ASSUME FileIInv, [Next]_vars PROVE Requests'
  OBVIOUS
<1> USE DEF FileIInv, disk, locks, told, locals
<1>1. ASSUME NEW c \in Caller, NEW r \in Request, Call(c, r)
      PROVE  Requests'
  BY <1>1 DEF Call, Goto, Requests, TypeOK, Queueing, Inside, Unwinding, Id, NoRequest
<1>2. ASSUME NEW c \in Caller, LockLocal(c)
      PROVE  Requests'
  BY <1>2 DEF LockLocal, Goto, Requests, TypeOK, Queueing, Inside, Unwinding, Id, NoRequest
<1>3. ASSUME NEW c \in Caller, LockFile(c)
      PROVE  Requests'
  BY <1>3 DEF LockFile, Goto, Requests, TypeOK, Queueing, Inside, Unwinding, Id, NoRequest
<1>4. ASSUME NEW c \in Caller, LockFileFails(c)
      PROVE  Requests'
  BY <1>4 DEF LockFileFails, Goto, Requests, TypeOK, Queueing, Inside, Unwinding, Id, NoRequest
<1>5. ASSUME NEW c \in Caller, Recheck(c)
      PROVE  Requests'
  BY <1>5 DEF Recheck, Goto, Requests, TypeOK, Queueing, Inside, Unwinding, Id, NoRequest
<1>6. ASSUME NEW c \in Caller, ReadRecord(c)
      PROVE  Requests'
  BY <1>6 DEF ReadRecord, Goto, Requests, TypeOK, Queueing, Inside, Unwinding, Id, NoRequest
<1>7. ASSUME NEW c \in Caller, Apply(c)
      PROVE  Requests'
  BY <1>7 DEF Apply, Goto, Requests, TypeOK, Queueing, Inside, Unwinding, Id, NoRequest
<1>8. ASSUME NEW c \in Caller, OpenTmp(c)
      PROVE  Requests'
  BY <1>8 DEF OpenTmp, Goto, Requests, TypeOK, Queueing, Inside, Unwinding, Id, NoRequest
<1>9. ASSUME NEW c \in Caller, EncodeTmp(c)
      PROVE  Requests'
  BY <1>9 DEF EncodeTmp, Goto, Requests, TypeOK, Queueing, Inside, Unwinding, Id, NoRequest
<1>10. ASSUME NEW c \in Caller, Rename(c)
      PROVE  Requests'
  BY <1>10 DEF Rename, Goto, Requests, TypeOK, Queueing, Inside, Unwinding, Id, NoRequest
<1>11. ASSUME NEW c \in Caller, WriteFails(c)
      PROVE  Requests'
  BY <1>11 DEF WriteFails, Goto, Requests, TypeOK, Queueing, Inside, Unwinding, Id, NoRequest
<1>12. ASSUME NEW c \in Caller, RemoveFile(c)
      PROVE  Requests'
  BY <1>12 DEF RemoveFile, Goto, Requests, TypeOK, Queueing, Inside, Unwinding, Id, NoRequest
<1>13. ASSUME NEW c \in Caller, UnlockFile(c)
      PROVE  Requests'
  BY <1>13 DEF UnlockFile, Goto, Requests, TypeOK, Queueing, Inside, Unwinding, Id, NoRequest
<1>14. ASSUME NEW c \in Caller, UnlockLocal(c)
      PROVE  Requests'
  BY <1>14 DEF UnlockLocal, Goto, Requests, TypeOK, Queueing, Inside, Unwinding, Id, NoRequest
<1>15. ASSUME NEW c \in Caller, Cancel(c)
      PROVE  Requests'
  BY <1>15 DEF Cancel, Goto, Requests, TypeOK, Queueing, Inside, Unwinding, Id, NoRequest
<1>16. ASSUME NEW i \in Instance, Crash(i)
      PROVE  Requests'
  BY <1>16 DEF Crash, Goto, Requests, TypeOK, Queueing, Inside, Unwinding, Id, NoRequest
<1>17. CASE Tick \/ UNCHANGED vars
  BY <1>17 DEF Tick, vars, Requests, TypeOK, Queueing, Inside, Unwinding, Id, NoRequest
<1> QED
  BY <1>1, <1>2, <1>3, <1>4, <1>5, <1>6, <1>7, <1>8, <1>9, <1>10, <1>11, <1>12, <1>13, <1>14, <1>15, <1>16, <1>17 DEF Next, Progress


\* The file lock of a record has one holder, on its way between flock and unflock.
LEMMA StepFileLocked == FileIInv /\ [Next]_vars => FileLocked'
<1> SUFFICES ASSUME FileIInv, [Next]_vars PROVE FileLocked'
  OBVIOUS
<1> USE DEF FileIInv, disk, locks, told, locals
<1>1. ASSUME NEW c \in Caller, NEW r \in Request, Call(c, r)
      PROVE  FileLocked'
  BY <1>1, CallerFacts, FileStoreAssumption DEF Call, Goto, FileLocked, LocksHeldByCallers, Requests, Locked, TypeOK, Queueing, Inside, Unwinding, Id
<1>2. ASSUME NEW c \in Caller, LockLocal(c)
      PROVE  FileLocked'
  BY <1>2, CallerFacts, FileStoreAssumption DEF LockLocal, Goto, FileLocked, LocksHeldByCallers, Requests, Locked, TypeOK, Queueing, Inside, Unwinding, Id
<1>3. ASSUME NEW c \in Caller, LockFile(c)
      PROVE  FileLocked'
  BY <1>3, CallerFacts, FileStoreAssumption DEF LockFile, Goto, FileLocked, LocksHeldByCallers, Requests, Locked, TypeOK, Queueing, Inside, Unwinding, Id
<1>4. ASSUME NEW c \in Caller, LockFileFails(c)
      PROVE  FileLocked'
  BY <1>4, CallerFacts, FileStoreAssumption DEF LockFileFails, Goto, FileLocked, LocksHeldByCallers, Requests, Locked, TypeOK, Queueing, Inside, Unwinding, Id
<1>5. ASSUME NEW c \in Caller, Recheck(c)
      PROVE  FileLocked'
  BY <1>5, CallerFacts, FileStoreAssumption DEF Recheck, Goto, FileLocked, LocksHeldByCallers, Requests, Locked, TypeOK, Queueing, Inside, Unwinding, Id
<1>6. ASSUME NEW c \in Caller, ReadRecord(c)
      PROVE  FileLocked'
  BY <1>6, CallerFacts, FileStoreAssumption DEF ReadRecord, Goto, FileLocked, LocksHeldByCallers, Requests, Locked, TypeOK, Queueing, Inside, Unwinding, Id
<1>7. ASSUME NEW c \in Caller, Apply(c)
      PROVE  FileLocked'
  BY <1>7, CallerFacts, FileStoreAssumption DEF Apply, Goto, FileLocked, LocksHeldByCallers, Requests, Locked, TypeOK, Queueing, Inside, Unwinding, Id
<1>8. ASSUME NEW c \in Caller, OpenTmp(c)
      PROVE  FileLocked'
  BY <1>8, CallerFacts, FileStoreAssumption DEF OpenTmp, Goto, FileLocked, LocksHeldByCallers, Requests, Locked, TypeOK, Queueing, Inside, Unwinding, Id
<1>9. ASSUME NEW c \in Caller, EncodeTmp(c)
      PROVE  FileLocked'
  BY <1>9, CallerFacts, FileStoreAssumption DEF EncodeTmp, Goto, FileLocked, LocksHeldByCallers, Requests, Locked, TypeOK, Queueing, Inside, Unwinding, Id
<1>10. ASSUME NEW c \in Caller, Rename(c)
      PROVE  FileLocked'
  BY <1>10, CallerFacts, FileStoreAssumption DEF Rename, Goto, FileLocked, LocksHeldByCallers, Requests, Locked, TypeOK, Queueing, Inside, Unwinding, Id
<1>11. ASSUME NEW c \in Caller, WriteFails(c)
      PROVE  FileLocked'
  BY <1>11, CallerFacts, FileStoreAssumption DEF WriteFails, Goto, FileLocked, LocksHeldByCallers, Requests, Locked, TypeOK, Queueing, Inside, Unwinding, Id
<1>12. ASSUME NEW c \in Caller, RemoveFile(c)
      PROVE  FileLocked'
  BY <1>12, CallerFacts, FileStoreAssumption DEF RemoveFile, Goto, FileLocked, LocksHeldByCallers, Requests, Locked, TypeOK, Queueing, Inside, Unwinding, Id
<1>13. ASSUME NEW c \in Caller, UnlockFile(c)
      PROVE  FileLocked'
  BY <1>13, CallerFacts, FileStoreAssumption DEF UnlockFile, Goto, FileLocked, LocksHeldByCallers, Requests, Locked, TypeOK, Queueing, Inside, Unwinding, Id
<1>14. ASSUME NEW c \in Caller, UnlockLocal(c)
      PROVE  FileLocked'
  BY <1>14, CallerFacts, FileStoreAssumption DEF UnlockLocal, Goto, FileLocked, LocksHeldByCallers, Requests, Locked, TypeOK, Queueing, Inside, Unwinding, Id
<1>15. ASSUME NEW c \in Caller, Cancel(c)
      PROVE  FileLocked'
  BY <1>15, CallerFacts, FileStoreAssumption DEF Cancel, Goto, FileLocked, LocksHeldByCallers, Requests, Locked, TypeOK, Queueing, Inside, Unwinding, Id
<1>16. ASSUME NEW i \in Instance, Crash(i)
      PROVE  FileLocked'
  BY <1>16, CallerFacts, FileStoreAssumption DEF Crash, Goto, FileLocked, LocksHeldByCallers, Requests, Locked, TypeOK, Queueing, Inside, Unwinding, Id
<1>17. CASE Tick \/ UNCHANGED vars
  BY <1>17, CallerFacts, FileStoreAssumption DEF Tick, vars, FileLocked, LocksHeldByCallers, Requests, Locked, TypeOK, Queueing, Inside, Unwinding, Id
<1> QED
  BY <1>1, <1>2, <1>3, <1>4, <1>5, <1>6, <1>7, <1>8, <1>9, <1>10, <1>11, <1>12, <1>13, <1>14, <1>15, <1>16, <1>17 DEF Next, Progress


\* Every lock is held by a caller that will release it.
LEMMA StepLocksHeld == FileIInv /\ [Next]_vars => LocksHeldByCallers'
<1> SUFFICES ASSUME FileIInv, [Next]_vars PROVE LocksHeldByCallers'
  OBVIOUS
<1> USE DEF FileIInv, disk, locks, told, locals
<1>1. ASSUME NEW c \in Caller, NEW r \in Request, Call(c, r)
      PROVE  LocksHeldByCallers'
  BY <1>1, CallerFacts, FileStoreAssumption DEF Call, Goto, FileLocked, LocksHeldByCallers, Requests, Locked, TypeOK, Queueing, Inside, Unwinding, Id
<1>2. ASSUME NEW c \in Caller, LockLocal(c)
      PROVE  LocksHeldByCallers'
  BY <1>2, CallerFacts, FileStoreAssumption DEF LockLocal, Goto, FileLocked, LocksHeldByCallers, Requests, Locked, TypeOK, Queueing, Inside, Unwinding, Id
<1>3. ASSUME NEW c \in Caller, LockFile(c)
      PROVE  LocksHeldByCallers'
  BY <1>3, CallerFacts, FileStoreAssumption DEF LockFile, Goto, FileLocked, LocksHeldByCallers, Requests, Locked, TypeOK, Queueing, Inside, Unwinding, Id
<1>4. ASSUME NEW c \in Caller, LockFileFails(c)
      PROVE  LocksHeldByCallers'
  BY <1>4, CallerFacts, FileStoreAssumption DEF LockFileFails, Goto, FileLocked, LocksHeldByCallers, Requests, Locked, TypeOK, Queueing, Inside, Unwinding, Id
<1>5. ASSUME NEW c \in Caller, Recheck(c)
      PROVE  LocksHeldByCallers'
  <2>1. PICK l \in Locked : pc' = [pc EXCEPT ![c] = l]
    BY <1>5 DEF Recheck, Goto, Locked, Inside
  <2> QED
    BY <1>5, <2>1, CallerFacts, FileStoreAssumption
    DEF Recheck, LocksHeldByCallers, Requests, Locked, TypeOK, Inside, Id
<1>6. ASSUME NEW c \in Caller, ReadRecord(c)
      PROVE  LocksHeldByCallers'
  BY <1>6, CallerFacts, FileStoreAssumption DEF ReadRecord, Goto, FileLocked, LocksHeldByCallers, Requests, Locked, TypeOK, Queueing, Inside, Unwinding, Id
<1>7. ASSUME NEW c \in Caller, Apply(c)
      PROVE  LocksHeldByCallers'
  <2>1. PICK l \in Locked : pc' = [pc EXCEPT ![c] = l]
    BY <1>7 DEF Apply, Goto, Locked, Inside
  <2> QED
    BY <1>7, <2>1, CallerFacts, FileStoreAssumption
    DEF Apply, LocksHeldByCallers, Requests, Locked, TypeOK, Inside, Id
<1>8. ASSUME NEW c \in Caller, OpenTmp(c)
      PROVE  LocksHeldByCallers'
  BY <1>8, CallerFacts, FileStoreAssumption DEF OpenTmp, Goto, FileLocked, LocksHeldByCallers, Requests, Locked, TypeOK, Queueing, Inside, Unwinding, Id
<1>9. ASSUME NEW c \in Caller, EncodeTmp(c)
      PROVE  LocksHeldByCallers'
  BY <1>9, CallerFacts, FileStoreAssumption DEF EncodeTmp, Goto, FileLocked, LocksHeldByCallers, Requests, Locked, TypeOK, Queueing, Inside, Unwinding, Id
<1>10. ASSUME NEW c \in Caller, Rename(c)
      PROVE  LocksHeldByCallers'
  BY <1>10, CallerFacts, FileStoreAssumption DEF Rename, Goto, FileLocked, LocksHeldByCallers, Requests, Locked, TypeOK, Queueing, Inside, Unwinding, Id
<1>11. ASSUME NEW c \in Caller, WriteFails(c)
      PROVE  LocksHeldByCallers'
  BY <1>11, CallerFacts, FileStoreAssumption DEF WriteFails, Goto, FileLocked, LocksHeldByCallers, Requests, Locked, TypeOK, Queueing, Inside, Unwinding, Id
<1>12. ASSUME NEW c \in Caller, RemoveFile(c)
      PROVE  LocksHeldByCallers'
  BY <1>12, CallerFacts, FileStoreAssumption DEF RemoveFile, Goto, FileLocked, LocksHeldByCallers, Requests, Locked, TypeOK, Queueing, Inside, Unwinding, Id
<1>13. ASSUME NEW c \in Caller, UnlockFile(c)
      PROVE  LocksHeldByCallers'
  BY <1>13, CallerFacts, FileStoreAssumption DEF UnlockFile, Goto, FileLocked, LocksHeldByCallers, Requests, Locked, TypeOK, Queueing, Inside, Unwinding, Id
<1>14. ASSUME NEW c \in Caller, UnlockLocal(c)
      PROVE  LocksHeldByCallers'
  BY <1>14, CallerFacts, FileStoreAssumption DEF UnlockLocal, Goto, FileLocked, LocksHeldByCallers, Requests, Locked, TypeOK, Queueing, Inside, Unwinding, Id
<1>15. ASSUME NEW c \in Caller, Cancel(c)
      PROVE  LocksHeldByCallers'
  BY <1>15, CallerFacts, FileStoreAssumption DEF Cancel, Goto, FileLocked, LocksHeldByCallers, Requests, Locked, TypeOK, Queueing, Inside, Unwinding, Id
<1>16. ASSUME NEW i \in Instance, Crash(i)
      PROVE  LocksHeldByCallers'
  BY <1>16, CallerFacts, FileStoreAssumption DEF Crash, Goto, FileLocked, LocksHeldByCallers, Requests, Locked, TypeOK, Queueing, Inside, Unwinding, Id
<1>17. CASE Tick \/ UNCHANGED vars
  BY <1>17, CallerFacts, FileStoreAssumption DEF Tick, vars, FileLocked, LocksHeldByCallers, Requests, Locked, TypeOK, Queueing, Inside, Unwinding, Id
<1> QED
  BY <1>1, <1>2, <1>3, <1>4, <1>5, <1>6, <1>7, <1>8, <1>9, <1>10, <1>11, <1>12, <1>13, <1>14, <1>15, <1>16, <1>17 DEF Next, Progress


\* A cancelled caller does not get past the re-check.
LEMMA StepCancelled == FileIInv /\ [Next]_vars => CancelledInQueueNeverWrites'
<1> SUFFICES ASSUME FileIInv, [Next]_vars PROVE CancelledInQueueNeverWrites'
  OBVIOUS
<1> USE DEF FileIInv, disk, locks, told, locals
<1>1. ASSUME NEW c \in Caller, NEW r \in Request, Call(c, r)
      PROVE  CancelledInQueueNeverWrites'
  BY <1>1 DEF Call, Goto, CancelledInQueueNeverWrites, TypeOK, Queueing, Inside, Unwinding, Id
<1>2. ASSUME NEW c \in Caller, LockLocal(c)
      PROVE  CancelledInQueueNeverWrites'
  BY <1>2 DEF LockLocal, Goto, CancelledInQueueNeverWrites, TypeOK, Queueing, Inside, Unwinding, Id
<1>3. ASSUME NEW c \in Caller, LockFile(c)
      PROVE  CancelledInQueueNeverWrites'
  BY <1>3 DEF LockFile, Goto, CancelledInQueueNeverWrites, TypeOK, Queueing, Inside, Unwinding, Id
<1>4. ASSUME NEW c \in Caller, LockFileFails(c)
      PROVE  CancelledInQueueNeverWrites'
  BY <1>4 DEF LockFileFails, Goto, CancelledInQueueNeverWrites, TypeOK, Queueing, Inside, Unwinding, Id
<1>5. ASSUME NEW c \in Caller, Recheck(c)
      PROVE  CancelledInQueueNeverWrites'
  BY <1>5 DEF Recheck, Goto, CancelledInQueueNeverWrites, TypeOK, Queueing, Inside, Unwinding, Id
<1>6. ASSUME NEW c \in Caller, ReadRecord(c)
      PROVE  CancelledInQueueNeverWrites'
  BY <1>6 DEF ReadRecord, Goto, CancelledInQueueNeverWrites, TypeOK, Queueing, Inside, Unwinding, Id
<1>7. ASSUME NEW c \in Caller, Apply(c)
      PROVE  CancelledInQueueNeverWrites'
  BY <1>7 DEF Apply, Goto, CancelledInQueueNeverWrites, TypeOK, Queueing, Inside, Unwinding, Id
<1>8. ASSUME NEW c \in Caller, OpenTmp(c)
      PROVE  CancelledInQueueNeverWrites'
  BY <1>8 DEF OpenTmp, Goto, CancelledInQueueNeverWrites, TypeOK, Queueing, Inside, Unwinding, Id
<1>9. ASSUME NEW c \in Caller, EncodeTmp(c)
      PROVE  CancelledInQueueNeverWrites'
  BY <1>9 DEF EncodeTmp, Goto, CancelledInQueueNeverWrites, TypeOK, Queueing, Inside, Unwinding, Id
<1>10. ASSUME NEW c \in Caller, Rename(c)
      PROVE  CancelledInQueueNeverWrites'
  BY <1>10 DEF Rename, Goto, CancelledInQueueNeverWrites, TypeOK, Queueing, Inside, Unwinding, Id
<1>11. ASSUME NEW c \in Caller, WriteFails(c)
      PROVE  CancelledInQueueNeverWrites'
  BY <1>11 DEF WriteFails, Goto, CancelledInQueueNeverWrites, TypeOK, Queueing, Inside, Unwinding, Id
<1>12. ASSUME NEW c \in Caller, RemoveFile(c)
      PROVE  CancelledInQueueNeverWrites'
  BY <1>12 DEF RemoveFile, Goto, CancelledInQueueNeverWrites, TypeOK, Queueing, Inside, Unwinding, Id
<1>13. ASSUME NEW c \in Caller, UnlockFile(c)
      PROVE  CancelledInQueueNeverWrites'
  BY <1>13 DEF UnlockFile, Goto, CancelledInQueueNeverWrites, TypeOK, Queueing, Inside, Unwinding, Id
<1>14. ASSUME NEW c \in Caller, UnlockLocal(c)
      PROVE  CancelledInQueueNeverWrites'
  BY <1>14 DEF UnlockLocal, Goto, CancelledInQueueNeverWrites, TypeOK, Queueing, Inside, Unwinding, Id
<1>15. ASSUME NEW c \in Caller, Cancel(c)
      PROVE  CancelledInQueueNeverWrites'
  BY <1>15 DEF Cancel, Goto, CancelledInQueueNeverWrites, TypeOK, Queueing, Inside, Unwinding, Id
<1>16. ASSUME NEW i \in Instance, Crash(i)
      PROVE  CancelledInQueueNeverWrites'
  BY <1>16 DEF Crash, Goto, CancelledInQueueNeverWrites, TypeOK, Queueing, Inside, Unwinding, Id
<1>17. CASE Tick \/ UNCHANGED vars
  BY <1>17 DEF Tick, vars, CancelledInQueueNeverWrites, TypeOK, Queueing, Inside, Unwinding, Id
<1> QED
  BY <1>1, <1>2, <1>3, <1>4, <1>5, <1>6, <1>7, <1>8, <1>9, <1>10, <1>11, <1>12, <1>13, <1>14, <1>15, <1>16, <1>17 DEF Next, Progress


\* No id is created twice, and a Create that has not renamed has no file.
LEMMA StepFreshCreates == FileIInv /\ [Next]_vars => FreshCreates'
<1> SUFFICES ASSUME FileIInv, [Next]_vars PROVE FreshCreates'
  OBVIOUS
<1> USE DEF FileIInv, disk, locks, told, locals
<1>1. ASSUME NEW c \in Caller, NEW r \in Request, Call(c, r)
      PROVE  FreshCreates'
  BY <1>1, RequestFacts DEF Call, Goto, FreshCreates, Requests, Writers, Writing, TypeOK, Queueing, Inside, Unwinding, Id
<1>2. ASSUME NEW c \in Caller, LockLocal(c)
      PROVE  FreshCreates'
  BY <1>2, RequestFacts DEF LockLocal, Goto, FreshCreates, Requests, Writers, Writing, TypeOK, Queueing, Inside, Unwinding, Id
<1>3. ASSUME NEW c \in Caller, LockFile(c)
      PROVE  FreshCreates'
  BY <1>3, RequestFacts DEF LockFile, Goto, FreshCreates, Requests, Writers, Writing, TypeOK, Queueing, Inside, Unwinding, Id
<1>4. ASSUME NEW c \in Caller, LockFileFails(c)
      PROVE  FreshCreates'
  BY <1>4, RequestFacts DEF LockFileFails, Goto, FreshCreates, Requests, Writers, Writing, TypeOK, Queueing, Inside, Unwinding, Id
<1>5. ASSUME NEW c \in Caller, Recheck(c)
      PROVE  FreshCreates'
  <2>1. Writers' \subseteq Writers
    BY <1>5 DEF Recheck, Goto, Writers, Writing, Inside, TypeOK
  <2> QED BY <1>5, <2>1 DEF Recheck, FreshCreates, Id
<1>6. ASSUME NEW c \in Caller, ReadRecord(c)
      PROVE  FreshCreates'
  BY <1>6, RequestFacts DEF ReadRecord, Goto, FreshCreates, Requests, Writers, Writing, TypeOK, Queueing, Inside, Unwinding, Id
<1>7. ASSUME NEW c \in Caller, Apply(c)
      PROVE  FreshCreates'
  <2>1. Writers' \subseteq Writers
    BY <1>7 DEF Apply, Goto, Writers, Writing, Inside, TypeOK
  <2> QED BY <1>7, <2>1 DEF Apply, FreshCreates, Id
<1>8. ASSUME NEW c \in Caller, OpenTmp(c)
      PROVE  FreshCreates'
  BY <1>8, RequestFacts DEF OpenTmp, Goto, FreshCreates, Requests, Writers, Writing, TypeOK, Queueing, Inside, Unwinding, Id
<1>9. ASSUME NEW c \in Caller, EncodeTmp(c)
      PROVE  FreshCreates'
  BY <1>9, RequestFacts DEF EncodeTmp, Goto, FreshCreates, Requests, Writers, Writing, TypeOK, Queueing, Inside, Unwinding, Id
<1>10. ASSUME NEW c \in Caller, Rename(c)
      PROVE  FreshCreates'
  BY <1>10, RequestFacts DEF Rename, Goto, FreshCreates, Requests, Writers, Writing, TypeOK, Queueing, Inside, Unwinding, Id
<1>11. ASSUME NEW c \in Caller, WriteFails(c)
      PROVE  FreshCreates'
  BY <1>11, RequestFacts DEF WriteFails, Goto, FreshCreates, Requests, Writers, Writing, TypeOK, Queueing, Inside, Unwinding, Id
<1>12. ASSUME NEW c \in Caller, RemoveFile(c)
      PROVE  FreshCreates'
  BY <1>12, RequestFacts DEF RemoveFile, Goto, FreshCreates, Requests, Writers, Writing, TypeOK, Queueing, Inside, Unwinding, Id
<1>13. ASSUME NEW c \in Caller, UnlockFile(c)
      PROVE  FreshCreates'
  BY <1>13, RequestFacts DEF UnlockFile, Goto, FreshCreates, Requests, Writers, Writing, TypeOK, Queueing, Inside, Unwinding, Id
<1>14. ASSUME NEW c \in Caller, UnlockLocal(c)
      PROVE  FreshCreates'
  BY <1>14, RequestFacts DEF UnlockLocal, Goto, FreshCreates, Requests, Writers, Writing, TypeOK, Queueing, Inside, Unwinding, Id
<1>15. ASSUME NEW c \in Caller, Cancel(c)
      PROVE  FreshCreates'
  BY <1>15, RequestFacts DEF Cancel, Goto, FreshCreates, Requests, Writers, Writing, TypeOK, Queueing, Inside, Unwinding, Id
<1>16. ASSUME NEW i \in Instance, Crash(i)
      PROVE  FreshCreates'
  BY <1>16, RequestFacts DEF Crash, Goto, FreshCreates, Requests, Writers, Writing, TypeOK, Queueing, Inside, Unwinding, Id
<1>17. CASE Tick \/ UNCHANGED vars
  BY <1>17, RequestFacts DEF Tick, vars, FreshCreates, Requests, Writers, Writing, TypeOK, Queueing, Inside, Unwinding, Id
<1> QED
  BY <1>1, <1>2, <1>3, <1>4, <1>5, <1>6, <1>7, <1>8, <1>9, <1>10, <1>11, <1>12, <1>13, <1>14, <1>15, <1>16, <1>17 DEF Next, Progress


\* A caller under the lock sees no other writer of its record.
LEMMA StepReadCurrent == FileIInv /\ [Next]_vars => ReadCurrent'
<1> SUFFICES ASSUME FileIInv, [Next]_vars PROVE ReadCurrent'
  OBVIOUS
<1> USE DEF FileIInv, disk, locks, told, locals
<1>1. ASSUME NEW c \in Caller, NEW r \in Request, Call(c, r)
      PROVE  ReadCurrent'
  BY <1>1, CallerFacts DEF Call, Goto, ReadCurrent, FileLocked, Locked, Prepared, TypeOK, Queueing, Inside, Unwinding, Id
<1>2. ASSUME NEW c \in Caller, LockLocal(c)
      PROVE  ReadCurrent'
  BY <1>2, CallerFacts DEF LockLocal, Goto, ReadCurrent, FileLocked, Locked, Prepared, TypeOK, Queueing, Inside, Unwinding, Id
<1>3. ASSUME NEW c \in Caller, LockFile(c)
      PROVE  ReadCurrent'
  BY <1>3, CallerFacts DEF LockFile, Goto, ReadCurrent, FileLocked, Locked, Prepared, TypeOK, Queueing, Inside, Unwinding, Id
<1>4. ASSUME NEW c \in Caller, LockFileFails(c)
      PROVE  ReadCurrent'
  BY <1>4, CallerFacts DEF LockFileFails, Goto, ReadCurrent, FileLocked, Locked, Prepared, TypeOK, Queueing, Inside, Unwinding, Id
<1>5. ASSUME NEW c \in Caller, Recheck(c)
      PROVE  ReadCurrent'
  BY <1>5, CallerFacts DEF Recheck, Goto, ReadCurrent, FileLocked, Locked, Prepared, TypeOK, Queueing, Inside, Unwinding, Id
<1>6. ASSUME NEW c \in Caller, ReadRecord(c)
      PROVE  ReadCurrent'
  BY <1>6, CallerFacts DEF ReadRecord, Goto, ReadCurrent, FileLocked, Locked, Prepared, TypeOK, Queueing, Inside, Unwinding, Id
<1>7. ASSUME NEW c \in Caller, Apply(c)
      PROVE  ReadCurrent'
  <2> DEFINE t == Transition(req[c], cur[c])
             new == [rec |-> t.rec, committed |-> CommittedBy(req[c], cur[c])]
  <2>1. CASE t.err # "nil"
    BY <1>7, <2>1 DEF Apply, Goto, ReadCurrent, Prepared, TypeOK, Id
  <2>2. CASE t.err = "nil"
    <3>1. /\ req[c] \in Request /\ req[c].op # "delete"
          /\ cur[c] \in Record \cup {Absent} /\ now \in Nat \ {0}
      BY <1>7, CallerFacts DEF Apply, ReadCurrent, TypeOK
    <3>2. PreparedBy(req[c], cur[c], new, now)
      BY <2>2, <3>1, TransitionFacts
    <3>3. next' = [next EXCEPT ![c] = new] /\ pc' = [pc EXCEPT ![c] = "open"]
      BY <1>7, <2>2 DEF Apply, Goto
    <3> HIDE DEF new, t
    <3> QED BY <1>7, <3>2, <3>3 DEF Apply, ReadCurrent, Prepared, TypeOK, Inside, Id
  <2> QED BY <2>1, <2>2
<1>8. ASSUME NEW c \in Caller, OpenTmp(c)
      PROVE  ReadCurrent'
  BY <1>8, CallerFacts DEF OpenTmp, Goto, ReadCurrent, FileLocked, Locked, Prepared, TypeOK, Queueing, Inside, Unwinding, Id
<1>9. ASSUME NEW c \in Caller, EncodeTmp(c)
      PROVE  ReadCurrent'
  BY <1>9, CallerFacts DEF EncodeTmp, Goto, ReadCurrent, FileLocked, Locked, Prepared, TypeOK, Queueing, Inside, Unwinding, Id
<1>10. ASSUME NEW c \in Caller, Rename(c)
      PROVE  ReadCurrent'
  BY <1>10, CallerFacts DEF Rename, Goto, ReadCurrent, FileLocked, Locked, Prepared, TypeOK, Queueing, Inside, Unwinding, Id
<1>11. ASSUME NEW c \in Caller, WriteFails(c)
      PROVE  ReadCurrent'
  BY <1>11, CallerFacts DEF WriteFails, Goto, ReadCurrent, FileLocked, Locked, Prepared, TypeOK, Queueing, Inside, Unwinding, Id
<1>12. ASSUME NEW c \in Caller, RemoveFile(c)
      PROVE  ReadCurrent'
  BY <1>12, CallerFacts DEF RemoveFile, Goto, ReadCurrent, FileLocked, Locked, Prepared, TypeOK, Queueing, Inside, Unwinding, Id
<1>13. ASSUME NEW c \in Caller, UnlockFile(c)
      PROVE  ReadCurrent'
  BY <1>13, CallerFacts DEF UnlockFile, Goto, ReadCurrent, FileLocked, Locked, Prepared, TypeOK, Queueing, Inside, Unwinding, Id
<1>14. ASSUME NEW c \in Caller, UnlockLocal(c)
      PROVE  ReadCurrent'
  BY <1>14, CallerFacts DEF UnlockLocal, Goto, ReadCurrent, FileLocked, Locked, Prepared, TypeOK, Queueing, Inside, Unwinding, Id
<1>15. ASSUME NEW c \in Caller, Cancel(c)
      PROVE  ReadCurrent'
  BY <1>15, CallerFacts DEF Cancel, Goto, ReadCurrent, FileLocked, Locked, Prepared, TypeOK, Queueing, Inside, Unwinding, Id
<1>16. ASSUME NEW i \in Instance, Crash(i)
      PROVE  ReadCurrent'
  BY <1>16, CallerFacts DEF Crash, Goto, ReadCurrent, FileLocked, Locked, Prepared, TypeOK, Queueing, Inside, Unwinding, Id
<1>17. CASE Tick \/ UNCHANGED vars
  <2>1. now' \in Nat /\ now \in Nat /\ now <= now'
    BY <1>17 DEF Tick, vars, TypeOK
  <2>2. ASSUME NEW c \in Caller, Prepared(c) PROVE Prepared(c)'
    BY <1>17, <2>1, <2>2, PreparedLater DEF Prepared, Tick, vars
  <2> QED BY <1>17, <2>2 DEF Tick, vars, ReadCurrent, Id
<1> QED
  BY <1>1, <1>2, <1>3, <1>4, <1>5, <1>6, <1>7, <1>8, <1>9, <1>10, <1>11, <1>12, <1>13, <1>14, <1>15, <1>16, <1>17 DEF Next, Progress


\* There are finitely many callers, and so finitely many writers.
LEMMA WritersFinite == IsFiniteSet(Writers)
BY FS_Subset, FileStoreAssumption DEF Writers

\* Fewer writers and no new revision leave every revision paid for.
LEMMA FewerWriters ==
  ASSUME TypeOK, Writers' \subseteq Writers, calls' = calls,
         \A id \in RecordId : files'[id] \in {files[id], Absent},
         RevisionsPaid
  PROVE  RevisionsPaid'
<1>1. IsFiniteSet(Writers)
  BY WritersFinite
<1>2. /\ Cardinality(Writers) \in Nat /\ Cardinality(Writers') \in Nat
      /\ Cardinality(Writers') <= Cardinality(Writers)
  BY <1>1, FS_Subset, FS_CardinalityType
<1>3. calls \in Nat /\ \A id \in RecordId : files[id] # Absent => files[id].rev \in Nat
  BY DEF TypeOK, Record
<1> QED BY <1>2, <1>3 DEF RevisionsPaid

\* A rename uses up the revision that its call paid for.
LEMMA StepRevisionsPaid == FileIInv /\ [Next]_vars => RevisionsPaid'
<1> SUFFICES ASSUME FileIInv, [Next]_vars PROVE RevisionsPaid'
  OBVIOUS
<1> USE DEF FileIInv, disk, locks, told, locals
<1>1. ASSUME NEW c \in Caller, NEW r \in Request, Call(c, r)
      PROVE  RevisionsPaid'
  <2>1. c \notin Writers /\ Writers' = Writers \cup {c} /\ IsFiniteSet(Writers)
    BY <1>1, WritersFinite DEF Call, Goto, Writers, Writing, Inside, TypeOK
  <2>2. Cardinality(Writers') = Cardinality(Writers) + 1 /\ Cardinality(Writers) \in Nat
    BY <2>1, FS_AddElement, FS_CardinalityType
  <2>3. calls' = calls + 1 /\ calls \in Nat /\ files' = files
    BY <1>1 DEF Call, TypeOK
  <2>4. \A id \in RecordId : files[id] # Absent => files[id].rev \in Nat
    BY DEF TypeOK, Record
  <2> QED BY <2>2, <2>3, <2>4 DEF RevisionsPaid
<1>2. ASSUME NEW c \in Caller, LockLocal(c)
      PROVE  RevisionsPaid'
  <2>1. Writers' \subseteq Writers
    BY <1>2 DEF LockLocal, Goto, Writers, Writing, Queueing, Inside, Unwinding, TypeOK
  <2>2. files' = files /\ calls' = calls
    BY <1>2 DEF LockLocal
  <2> QED BY <2>1, <2>2, FewerWriters
<1>3. ASSUME NEW c \in Caller, LockFile(c)
      PROVE  RevisionsPaid'
  <2>1. Writers' \subseteq Writers
    BY <1>3 DEF LockFile, Goto, Writers, Writing, Queueing, Inside, Unwinding, TypeOK
  <2>2. files' = files /\ calls' = calls
    BY <1>3 DEF LockFile
  <2> QED BY <2>1, <2>2, FewerWriters
<1>4. ASSUME NEW c \in Caller, LockFileFails(c)
      PROVE  RevisionsPaid'
  <2>1. Writers' \subseteq Writers
    BY <1>4 DEF LockFileFails, Goto, Writers, Writing, Queueing, Inside, Unwinding, TypeOK
  <2>2. files' = files /\ calls' = calls
    BY <1>4 DEF LockFileFails
  <2> QED BY <2>1, <2>2, FewerWriters
<1>5. ASSUME NEW c \in Caller, Recheck(c)
      PROVE  RevisionsPaid'
  <2>1. Writers' \subseteq Writers
    BY <1>5 DEF Recheck, Goto, Writers, Writing, Queueing, Inside, Unwinding, TypeOK
  <2>2. files' = files /\ calls' = calls
    BY <1>5 DEF Recheck
  <2> QED BY <2>1, <2>2, FewerWriters
<1>6. ASSUME NEW c \in Caller, ReadRecord(c)
      PROVE  RevisionsPaid'
  <2>1. Writers' \subseteq Writers
    BY <1>6 DEF ReadRecord, Goto, Writers, Writing, Queueing, Inside, Unwinding, TypeOK
  <2>2. files' = files /\ calls' = calls
    BY <1>6 DEF ReadRecord
  <2> QED BY <2>1, <2>2, FewerWriters
<1>7. ASSUME NEW c \in Caller, Apply(c)
      PROVE  RevisionsPaid'
  <2>1. Writers' \subseteq Writers
    BY <1>7 DEF Apply, Goto, Writers, Writing, Queueing, Inside, Unwinding, TypeOK
  <2>2. files' = files /\ calls' = calls
    BY <1>7 DEF Apply
  <2> QED BY <2>1, <2>2, FewerWriters
<1>8. ASSUME NEW c \in Caller, OpenTmp(c)
      PROVE  RevisionsPaid'
  <2>1. Writers' \subseteq Writers
    BY <1>8 DEF OpenTmp, Goto, Writers, Writing, Queueing, Inside, Unwinding, TypeOK
  <2>2. files' = files /\ calls' = calls
    BY <1>8 DEF OpenTmp
  <2> QED BY <2>1, <2>2, FewerWriters
<1>9. ASSUME NEW c \in Caller, EncodeTmp(c)
      PROVE  RevisionsPaid'
  <2>1. Writers' \subseteq Writers
    BY <1>9 DEF EncodeTmp, Goto, Writers, Writing, Queueing, Inside, Unwinding, TypeOK
  <2>2. files' = files /\ calls' = calls
    BY <1>9 DEF EncodeTmp
  <2> QED BY <2>1, <2>2, FewerWriters
<1>10. ASSUME NEW c \in Caller, Rename(c)
      PROVE  RevisionsPaid'
  <2>1. c \in Writers /\ Writers' = Writers \ {c} /\ IsFiniteSet(Writers)
    BY <1>10, WritersFinite DEF Rename, Goto, Writers, Writing, Inside, TypeOK
  <2>2. /\ Cardinality(Writers') = Cardinality(Writers) - 1
        /\ Cardinality(Writers) \in Nat /\ Cardinality(Writers') \in Nat
    BY <2>1, FS_RemoveElement, FS_CardinalityType
  <2>3. /\ req[c] \in Request /\ Id(c) \in RecordId /\ Prepared(c)
        /\ tmp[Id(c)] = next[c].rec /\ cur[c] = files[Id(c)]
    BY <1>10, CallerFacts DEF Rename, ReadCurrent
  <2>4. cur[c] \in Record \cup {Absent} /\ now \in Nat /\ calls \in Nat
    BY DEF TypeOK
  <2>5. /\ next[c].rec.rev = 1
        \/ /\ cur[c] \in Record /\ cur[c].rev \in Nat
           /\ next[c].rec.rev \in {cur[c].rev, cur[c].rev + 1}
    <3>1. cur[c] \in Record => cur[c].rev \in Nat
      BY DEF Record
    <3> QED BY <2>3, <2>4, <3>1, PreparedFacts DEF Prepared
  <2>6. next[c].rec.rev + Cardinality(Writers') <= calls
    BY <2>2, <2>3, <2>4, <2>5, FileStoreAssumption DEF RevisionsPaid
  <2>7. /\ calls' = calls /\ files'[Id(c)] = next[c].rec
        /\ \A id \in RecordId \ {Id(c)} : files'[id] = files[id]
    BY <1>10, <2>3 DEF Rename, TypeOK
  <2>8. \A id \in RecordId : files[id] # Absent => files[id].rev \in Nat
    BY DEF TypeOK, Record
  <2> QED BY <2>2, <2>4, <2>6, <2>7, <2>8 DEF RevisionsPaid
<1>11. ASSUME NEW c \in Caller, WriteFails(c)
      PROVE  RevisionsPaid'
  <2>1. Writers' \subseteq Writers
    BY <1>11 DEF WriteFails, Goto, Writers, Writing, Queueing, Inside, Unwinding, TypeOK
  <2>2. files' = files /\ calls' = calls
    BY <1>11 DEF WriteFails
  <2> QED BY <2>1, <2>2, FewerWriters
<1>12. ASSUME NEW c \in Caller, RemoveFile(c)
      PROVE  RevisionsPaid'
  <2>1. Writers' \subseteq Writers
    BY <1>12 DEF RemoveFile, Goto, Writers, Writing, Inside, TypeOK
  <2>2. calls' = calls /\ \A id \in RecordId : files'[id] \in {files[id], Absent}
    BY <1>12 DEF RemoveFile, TypeOK
  <2> QED BY <2>1, <2>2, FewerWriters
<1>13. ASSUME NEW c \in Caller, UnlockFile(c)
      PROVE  RevisionsPaid'
  <2>1. Writers' \subseteq Writers
    BY <1>13 DEF UnlockFile, Goto, Writers, Writing, Queueing, Inside, Unwinding, TypeOK
  <2>2. files' = files /\ calls' = calls
    BY <1>13 DEF UnlockFile
  <2> QED BY <2>1, <2>2, FewerWriters
<1>14. ASSUME NEW c \in Caller, UnlockLocal(c)
      PROVE  RevisionsPaid'
  <2>1. Writers' \subseteq Writers
    BY <1>14 DEF UnlockLocal, Goto, Writers, Writing, Queueing, Inside, Unwinding, TypeOK
  <2>2. files' = files /\ calls' = calls
    BY <1>14 DEF UnlockLocal
  <2> QED BY <2>1, <2>2, FewerWriters
<1>15. ASSUME NEW c \in Caller, Cancel(c)
      PROVE  RevisionsPaid'
  <2>1. Writers' \subseteq Writers
    BY <1>15 DEF Cancel, Goto, Writers, Writing, Queueing, Inside, Unwinding, TypeOK
  <2>2. files' = files /\ calls' = calls
    BY <1>15 DEF Cancel
  <2> QED BY <2>1, <2>2, FewerWriters
<1>16. ASSUME NEW i \in Instance, Crash(i)
      PROVE  RevisionsPaid'
  <2>1. Writers' \subseteq Writers
    BY <1>16 DEF Crash, Goto, Writers, Writing, Queueing, Inside, Unwinding, TypeOK
  <2>2. files' = files /\ calls' = calls
    BY <1>16 DEF Crash
  <2> QED BY <2>1, <2>2, FewerWriters
<1>17. CASE Tick \/ UNCHANGED vars
  <2>1. Writers' \subseteq Writers
    BY <1>17 DEF Tick, vars, Goto, Writers, Writing, Queueing, Inside, Unwinding, TypeOK
  <2>2. files' = files /\ calls' = calls
    BY <1>17 DEF Tick, vars
  <2> QED BY <2>1, <2>2, FewerWriters
<1> QED
  BY <1>1, <1>2, <1>3, <1>4, <1>5, <1>6, <1>7, <1>8, <1>9, <1>10, <1>11, <1>12, <1>13, <1>14, <1>15, <1>16, <1>17 DEF Next, Progress


\* Every step keeps the inductive invariant.
LEMMA NextFileIInv == FileIInv /\ [Next]_vars => FileIInv'
BY StepTypeOK, StepRequests, StepFileLocked, StepLocksHeld, StepCancelled,
   StepFreshCreates, StepReadCurrent, StepRevisionsPaid
   DEF FileIInv

-----------------------------------------------------------------------------
\* The inductive invariant holds in every reachable state of the directory,
\* for any number of processes, goroutines and records.
THEOREM FileIInvHolds == Spec => []FileIInv
BY InitFileIInv, NextFileIInv, PTL DEF Spec

\* TypeOK of the file store: no step of a call, a crash or an I/O error leaves
\* anything but a record, nothing or a partial temporary file on disk.
THEOREM FileTypeCorrect == Spec => []TypeOK
<1>1. FileIInv => TypeOK
  BY DEF FileIInv
<1> QED BY <1>1, FileIInvHolds, PTL

\* CallersSound: a call cancelled while it queued never touches its record, and
\* every lock withExclusive took is held by a call that is still on its way.
THEOREM CallersAreSound == Spec => []CallersSound
<1>1. FileIInv => CallersSound
  BY DEF FileIInv, CallersSound
<1> QED BY <1>1, FileIInvHolds, PTL

-----------------------------------------------------------------------------
\* The refinement.

\* A batch of one call is a batch of the atomic store.
LEMMA AbstractBatch == Batches \subseteq Abstract!Batches
<1> SUFFICES ASSUME NEW ds \in Batches PROVE ds \in Abstract!Batches
  OBVIOUS
<1>1. PICK n \in 1..MaxBatch : ds \in [1..n -> Decision]
  BY DEF Batches
<1>2. n \in 0..MaxBatch /\ Decision = Abstract!Decision
  BY FileStoreAssumption DEF Decision, Abstract!Decision
<1> QED BY <1>1, <1>2 DEF Abstract!Batches

\* Both stores share the transition logic.
LEMMA SharedSubmit ==
  ASSUME NEW rec, NEW ds
  PROVE  Abstract!ApplyDecisions(rec, ds) = ApplyDecisions(rec, ds)
<1>1. /\ Abstract!Committed(rec, ds) = Committed(rec, ds)
      /\ Abstract!Accepted(rec, ds) = Accepted(rec, ds)
  BY DEF Committed, Accepted, Rejected, UnknownCall, Conflict, ExistingAt, FirstEntry,
     EarlierEntries, Abstract!Committed, Abstract!Accepted, Abstract!Rejected,
     Abstract!UnknownCall, Abstract!Conflict, Abstract!ExistingAt, Abstract!FirstEntry,
     Abstract!EarlierEntries
<1>2. Abstract!MergedDecisions(rec, ds) = MergedDecisions(rec, ds)
  BY <1>1 DEF MergedDecisions, FirstEntry, EarlierEntries, Abstract!MergedDecisions,
     Abstract!FirstEntry, Abstract!EarlierEntries
<1>3. ASSUME NEW D PROVE Abstract!CommitAudit(rec, D) = CommitAudit(rec, D)
  BY DEF CommitAudit, AllDecided, Abstract!CommitAudit, Abstract!AllDecided
<1>4. Abstract!SubmitError(rec, ds) = SubmitError(rec, ds)
  BY <1>1 DEF SubmitError, UnknownCall, Abstract!SubmitError, Abstract!UnknownCall
<1> QED BY <1>1, <1>2, <1>3, <1>4 DEF ApplyDecisions, Abstract!ApplyDecisions

\* Both stores share the lease transitions.
LEMMA SharedLeases ==
  ASSUME NEW rec, NEW o, NEW ttl, NEW t, NEW meta, NEW pending
  PROVE  /\ Abstract!NewRecord(meta, pending) = NewRecord(meta, pending)
         /\ Abstract!AcquireLeaseOn(rec, o, ttl, t) = AcquireLeaseOn(rec, o, ttl, t)
         /\ Abstract!ReleaseLeaseOn(rec, o) = ReleaseLeaseOn(rec, o)
         /\ Abstract!CompleteOn(rec, o) = CompleteOn(rec, o)
         /\ Abstract!ZeroTime = ZeroTime
<1>1. Abstract!NewRecord(meta, pending) = NewRecord(meta, pending)
  BY DEF NewRecord, Abstract!NewRecord, ZeroTime, Abstract!ZeroTime
<1>2. Abstract!AcquireLeaseOn(rec, o, ttl, t) = AcquireLeaseOn(rec, o, ttl, t)
  BY DEF AcquireLeaseOn, LeaseLive, Ok, Fail, Abstract!AcquireLeaseOn, Abstract!LeaseLive,
     Abstract!Ok, Abstract!Fail
<1>3. /\ Abstract!ReleaseLeaseOn(rec, o) = ReleaseLeaseOn(rec, o)
      /\ Abstract!CompleteOn(rec, o) = CompleteOn(rec, o)
  BY DEF ReleaseLeaseOn, CompleteOn, OwnsLease, EndLease, Ok, Fail, ZeroTime,
     Abstract!ReleaseLeaseOn, Abstract!CompleteOn, Abstract!OwnsLease, Abstract!EndLease,
     Abstract!Ok, Abstract!Fail, Abstract!ZeroTime
<1> QED BY <1>1, <1>2, <1>3 DEF ZeroTime, Abstract!ZeroTime

\* A record with a writer has room for one more revision.
LEMMA WriterHasRoom ==
  ASSUME FileIInv, NEW c \in Writers, Id(c) \in RecordId, files[Id(c)] # Absent
  PROVE  Abstract!Writable(Id(c))
<1>1. Cardinality(Writers) \in Nat /\ Cardinality(Writers) # 0
  BY WritersFinite, FS_CardinalityType, FS_EmptySet
<1>2. /\ files[Id(c)].rev \in Nat /\ calls \in Nat /\ calls <= MaxCalls
  BY DEF FileIInv, TypeOK, Record
<1>3. files[Id(c)].rev + Cardinality(Writers) <= calls
  BY DEF FileIInv, RevisionsPaid
<1>4. files[Id(c)].rev < MaxRevision
  BY <1>1, <1>2, <1>3, FileStoreAssumption
<1> QED BY <1>4 DEF Abstract!Writable, Abstract!Exists

\* A rename is one operation of the atomic store, or rewrites what is there.
LEMMA RenameRefines ==
  ASSUME FileIInv, NEW c \in Caller, Rename(c)
  PROVE  [Abstract!Next]_<<files, written, now, granted, credited>>
<1> DEFINE r == req[c]
           id == Id(c)
           rec == files[id]
           new == next[c]
<1>1. /\ r \in Request /\ id \in RecordId /\ PreparedBy(r, rec, new, now)
      /\ tmp[id] = new.rec /\ c \in Writers /\ r.id = id
  BY CallerFacts
     DEF FileIInv, Rename, ReadCurrent, Prepared, Writers, Writing, Inside, Id
<1>2. /\ files' = [files EXCEPT ![id] = new.rec]
      /\ written' = written \cup {id} /\ now' = now /\ Told(c)
  BY <1>1 DEF Rename
<1>3. /\ rec \in Record \cup {Absent} /\ now \in Nat
      /\ files \in [RecordId -> Record \cup {Absent}]
      /\ granted \in [Owner -> [RecordId -> Nat]]
      /\ credited \in [RecordId -> [ToolCall -> Nat]]
  BY <1>1 DEF FileIInv, TypeOK
<1>4. /\ r.op \in {"create", "submit", "acquire", "release", "complete"}
      /\ r.op # "create" => rec \in Record
  BY <1>1, <1>3, PreparedFacts
<1>5. ASSUME r.op # "create"
      PROVE  Abstract!Writable(id) /\ written' = written
  <2>1. rec # Absent /\ id \in written
    BY <1>1, <1>4, <1>5, FileStoreAssumption DEF FileIInv, FreshCreates
  <2> QED BY <1>1, <1>2, <2>1, WriterHasRoom
<1>6. ASSUME new.committed = {}
      PROVE  credited' = credited
  BY <1>1, <1>2, <1>3, <1>6 DEF Told
<1>7. CASE r.op = "create"
  <2>1. /\ r.meta \in Meta /\ r.pending \in SUBSET ToolCall /\ r.pending # {}
        /\ new.rec = NewRecord(r.meta, r.pending) /\ new.committed = {}
    BY <1>1, <1>7, RequestFacts DEF PreparedBy
  <2>2. id \notin written
    BY <1>1, <1>7 DEF FileIInv, FreshCreates
  <2>3. granted' = granted /\ credited' = credited
    BY <1>2, <1>6, <1>7, <2>1 DEF Told
  <2>4. new.rec = Abstract!NewRecord(r.meta, r.pending)
    BY <2>1, SharedLeases
  <2>5. Abstract!Create(id, r.meta, r.pending)
    BY <1>2, <2>1, <2>2, <2>3, <2>4 DEF Abstract!Create
  <2> QED BY <1>1, <2>1, <2>5 DEF Abstract!Next
<1>8. CASE r.op = "submit"
  <2> DEFINE a == ApplyDecisions(rec, r.ds)
  <2>1. r.ds \in Batches /\ new.rec = a.rec /\ new.committed = a.committed
    BY <1>1, <1>8, RequestFacts DEF PreparedBy
  <2>2. granted' = granted
    BY <1>2, <1>8 DEF Told
  <2>3. CASE a.committed = {}
    <3>1. a.rec = rec
      BY <1>4, <1>8, <2>1, <2>3, ApplyFacts
    <3>2. files' = files /\ credited' = credited /\ written' = written
      BY <1>2, <1>3, <1>5, <1>6, <1>8, <2>1, <2>3, <3>1
    <3> QED BY <1>2, <2>2, <3>2
  <2>4. CASE a.committed # {}
    <3>1. credited' = Abstract!Credit(id, a.committed)
      BY <1>1, <1>2, <2>1 DEF Told, Abstract!Credit
    <3>2. Abstract!SubmitDecisions(id, r.ds)
      BY <1>2, <1>5, <1>8, <2>1, <2>2, <2>4, <3>1, SharedSubmit DEF Abstract!SubmitDecisions
    <3> QED BY <1>1, <2>1, <3>2, AbstractBatch DEF Abstract!Next
  <2> QED BY <2>3, <2>4
<1>9. CASE r.op = "acquire"
  <2>1. PICK t \in 1..now : /\ AcquireLeaseOn(rec, r.owner, r.ttl, t).err = "nil"
                            /\ new.rec = AcquireLeaseOn(rec, r.owner, r.ttl, t).rec
    BY <1>1, <1>9 DEF PreparedBy
  <2>2. /\ r.owner \in Owner /\ r.ttl \in LeaseTTL /\ r.ttl \in Nat /\ t \in Nat
        /\ new.committed = {} /\ rec \in Record
    BY <1>1, <1>4, <1>9, RequestFacts, FileStoreAssumption DEF PreparedBy
  <2>3. new.rec.expires = t + r.ttl
    BY <2>1, <2>2, AcquireFacts
  <2>4. granted' = [granted EXCEPT ![r.owner][id] = t + r.ttl]
    BY <1>1, <1>2, <1>9, <2>3 DEF Told
  <2>5. files' = [files EXCEPT ![id] = AcquireLeaseOn(@, r.owner, r.ttl, t).rec]
    BY <1>2, <2>1
  <2>6. /\ AcquireLeaseOn(rec, r.owner, r.ttl, t) = Abstract!AcquireLeaseOn(rec, r.owner, r.ttl, t)
        /\ Abstract!Writable(id) /\ UNCHANGED <<written, now, credited>>
    BY <1>2, <1>5, <1>6, <1>9, <2>2, SharedLeases
  <2>7. Abstract!AcquireLease(id, r.owner, r.ttl, t)
    BY <2>1, <2>4, <2>5, <2>6 DEF Abstract!AcquireLease
  <2> QED BY <1>1, <2>2, <2>7 DEF Abstract!Next
<1>10. CASE r.op \in {"release", "complete"}
  <2>1. r.owner \in Owner /\ new.committed = {}
    BY <1>1, <1>10, RequestFacts DEF PreparedBy
  <2>2. granted' = [granted EXCEPT ![r.owner][id] = ZeroTime]
    BY <1>1, <1>2, <1>10 DEF Told
  <2>3. CASE r.op = "release"
    <3>1. /\ ReleaseLeaseOn(rec, r.owner).err = "nil"
          /\ new.rec = ReleaseLeaseOn(rec, r.owner).rec
      BY <1>1, <2>3 DEF PreparedBy
    <3>2. files' = [files EXCEPT ![id] = ReleaseLeaseOn(@, r.owner).rec]
      BY <1>2, <3>1
    <3>3. /\ ReleaseLeaseOn(rec, r.owner) = Abstract!ReleaseLeaseOn(rec, r.owner)
          /\ Abstract!ZeroTime = ZeroTime
          /\ Abstract!Writable(id) /\ UNCHANGED <<written, now, credited>>
      BY <1>2, <1>5, <1>6, <1>10, <2>1, SharedLeases
    <3>4. Abstract!ReleaseLease(id, r.owner)
      BY <2>2, <3>1, <3>2, <3>3 DEF Abstract!ReleaseLease
    <3> QED BY <1>1, <2>1, <3>4 DEF Abstract!Next
  <2>4. CASE r.op = "complete"
    <3>1. /\ CompleteOn(rec, r.owner).err = "nil"
          /\ new.rec = CompleteOn(rec, r.owner).rec
      BY <1>1, <2>4 DEF PreparedBy
    <3>2. files' = [files EXCEPT ![id] = CompleteOn(@, r.owner).rec]
      BY <1>2, <3>1
    <3>3. /\ CompleteOn(rec, r.owner) = Abstract!CompleteOn(rec, r.owner)
          /\ Abstract!ZeroTime = ZeroTime
          /\ Abstract!Writable(id) /\ UNCHANGED <<written, now, credited>>
      BY <1>2, <1>5, <1>6, <1>10, <2>1, SharedLeases
    <3>4. Abstract!Complete(id, r.owner)
      BY <2>2, <3>1, <3>2, <3>3 DEF Abstract!Complete
    <3> QED BY <1>1, <2>1, <3>4 DEF Abstract!Next
  <2> QED BY <1>10, <2>3, <2>4
<1> QED BY <1>4, <1>7, <1>8, <1>9, <1>10

\* Every other step that touches the directory's state is Delete, Tick or
\* invisible to the callers of the atomic store.
LEMMA StepRefines ==
  FileIInv /\ [Next]_vars => [Abstract!Next]_<<files, written, now, granted, credited>>
<1> SUFFICES ASSUME FileIInv, [Next]_vars
             PROVE  [Abstract!Next]_<<files, written, now, granted, credited>>
  OBVIOUS
<1>1. ASSUME NEW c \in Caller, RemoveFile(c)
      PROVE  [Abstract!Next]_<<files, written, now, granted, credited>>
  <2>1. Id(c) \in RecordId /\ files' = [files EXCEPT ![Id(c)] = Absent]
    BY <1>1, CallerFacts DEF RemoveFile
  <2>2. UNCHANGED <<written, now, granted, credited>>
    BY <1>1 DEF RemoveFile, told
  <2>3. CASE files[Id(c)] = Absent
    BY <2>1, <2>2, <2>3 DEF FileIInv, TypeOK
  <2>4. CASE files[Id(c)] # Absent
    BY <2>1, <2>2, <2>4 DEF Abstract!Next, Abstract!Delete, Abstract!Exists
  <2> QED BY <2>3, <2>4
<1>2. CASE Tick
  BY <1>2 DEF Tick, disk, told, Abstract!Next, Abstract!Tick
<1>3. ASSUME NEW c \in Caller,
             \/ \E r \in Request : Call(c, r)
             \/ LockLocal(c) \/ LockFile(c) \/ LockFileFails(c) \/ Recheck(c)
             \/ ReadRecord(c) \/ Apply(c) \/ OpenTmp(c) \/ EncodeTmp(c) \/ WriteFails(c)
             \/ UnlockFile(c) \/ UnlockLocal(c) \/ Cancel(c)
      PROVE  UNCHANGED <<files, written, now, granted, credited>>
  BY <1>3 DEF Call, LockLocal, LockFile, LockFileFails, Recheck, ReadRecord, Apply, OpenTmp,
     EncodeTmp, WriteFails, UnlockFile, UnlockLocal, Cancel, disk, told
<1>4. ASSUME NEW i \in Instance, Crash(i)
      PROVE  UNCHANGED <<files, written, now, granted, credited>>
  BY <1>4 DEF Crash, disk, told
<1>5. CASE UNCHANGED vars
  BY <1>5 DEF vars
<1> QED BY <1>1, <1>2, <1>3, <1>4, <1>5, RenameRefines DEF Next, Progress

\* Refinement: the directory of record files, with its mutexes, file locks,
\* temporary files, I/O errors, cancelled callers and crashed processes,
\* implements the atomic interrupt.Store.
THEOREM DirectoryImplementsStore == Spec => Refinement
<1>1. Init => Abstract!Init
  BY DEF Init, Abstract!Init, ZeroTime, Abstract!ZeroTime
<1> QED BY <1>1, FileIInvHolds, StepRefines, PTL DEF Spec, Refinement

-----------------------------------------------------------------------------
\* The vector index of the session tree

\* What a piece of work may be.

Work == [op : {"unused", "finished", "index", "embedded", "remove", "list", "removing"},
         node : IndexNode \cup {0}, text : Int, list : SUBSET IndexNode]

IndexTypeOK ==
  /\ summary \in [IndexNode -> Int]
  /\ docs \in [IndexNode -> [text : Int, dim : Dims \cup {0}]]
  /\ lockedDim \in Dims \cup {0}
  /\ work \in [IndexWork -> Work]
  /\ \A w \in IndexWork :
       /\ work[w].op \in {"index", "embedded", "remove"} => work[w].node \in IndexNode
       /\ work[w].op = "embedded" => work[w].text # 0
       /\ work[w].list # {} => work[w].op = "removing"

\* Work that a node waits for, and that it fits what the node has become.
Opens(w, n) ==
  \/ work[w].op \in {"index", "embedded", "remove"} /\ work[w].node = n
  \/ work[w].op = "list"
  \/ n \in work[w].list

Fits(w, n) ==
  IF work[w].op \in {"index", "embedded"} THEN work[w].text = summary[n] ELSE summary[n] = Gone

DocOf(n) == IF summary[n] = 0 THEN Gone ELSE summary[n]

\* A node in order waits for one piece of work at most, which fits it, and has
\* the document it should have when it waits for none.
NodeInOrder(n) ==
  /\ \A v, w \in IndexWork : Opens(v, n) /\ Opens(w, n) => v = w
  /\ \A w \in IndexWork : Opens(w, n) => Fits(w, n)
  /\ (\A w \in IndexWork : ~Opens(w, n)) => docs[n].text = DocOf(n)

NodesInOrder == \A n \in IndexNode \ outOfOrder : NodeInOrder(n)

OneDimension == \A n \in IndexNode : docs[n] # NoDoc => docs[n].dim = lockedDim /\ lockedDim # 0

IndexIInv == IndexTypeOK /\ NodesInOrder /\ OneDimension

LEMMA NoDocument == NoDoc \in [text : Int, dim : Dims \cup {0}] /\ NoDoc.text = Gone /\ Gone \in Int
  BY DEF NoDoc, Doc, Gone

LEMMA FinishedWork ==
  /\ Finished \in Work /\ Finished.op = "finished" /\ Finished.list = {}
  /\ Unused \in Work /\ Unused.op = "unused" /\ Unused.list = {}
<1>1. Gone \in Int
  BY DEF Gone
<1>2. Unused \in Work /\ Unused.op = "unused" /\ Unused.list = {}
  BY <1>1 DEF Unused, Work
<1>3. PICK u : u = Unused
  OBVIOUS
<1>4. Finished = [u EXCEPT !.op = "finished"]
  BY <1>3 DEF Finished
<1> QED
  BY <1>2, <1>3, <1>4 DEF Work

LEMMA IndexInitial == IndexInit => IndexIInv
<1> SUFFICES ASSUME IndexInit
             PROVE  IndexIInv
  OBVIOUS
<1>1. PICK u \in Work : u = Unused /\ u.op = "unused" /\ u.list = {}
  BY FinishedWork
<1>2. PICK no \in [text : Int, dim : Dims \cup {0}] : no = NoDoc /\ no.text = Gone
  BY NoDocument
<1>3. /\ summary = [n \in IndexNode |-> Gone] /\ docs = [n \in IndexNode |-> no]
      /\ lockedDim = 0 /\ work = [w \in IndexWork |-> u] /\ outOfOrder = {}
  BY <1>1, <1>2 DEF IndexInit
<1>4. IndexTypeOK
  BY <1>1, <1>2, <1>3, NoDocument DEF IndexTypeOK
<1>5. \A n \in IndexNode : docs[n].text = DocOf(n)
  BY <1>2, <1>3 DEF DocOf, Gone
<1>6. NodesInOrder
  BY <1>1, <1>3, <1>5 DEF NodesInOrder, NodeInOrder, Opens
<1>7. OneDimension
  BY <1>2, <1>3 DEF OneDimension
<1> QED
  BY <1>4, <1>6, <1>7 DEF IndexIInv

-----------------------------------------------------------------------------
\* What a step does to the order of one node.

\* Nothing.
LEMMA NodeKept ==
  ASSUME NEW n \in IndexNode, NodeInOrder(n), summary'[n] = summary[n], docs'[n] = docs[n],
         \A w \in IndexWork : Opens(w, n)' => Opens(w, n) /\ Fits(w, n)',
         \A w \in IndexWork : Opens(w, n) => Opens(w, n)'
  PROVE  NodeInOrder(n)'
<1>1. \A v, w \in IndexWork : Opens(v, n)' /\ Opens(w, n)' => v = w
  BY DEF NodeInOrder
<1>2. (\A w \in IndexWork : ~Opens(w, n)') => docs'[n].text = DocOf(n)'
  BY DEF NodeInOrder, DocOf
<1> QED
  BY <1>1, <1>2 DEF NodeInOrder

\* New work, when there was none.
LEMMA NodeOpened ==
  ASSUME NEW n \in IndexNode, NEW w \in IndexWork,
         \A v \in IndexWork : v # w => ~Opens(v, n)',
         Opens(w, n)', Fits(w, n)'
  PROVE  NodeInOrder(n)'
  BY DEF NodeInOrder

\* The end of its work.
LEMMA NodeClosed ==
  ASSUME NEW n \in IndexNode, NodeInOrder(n), NEW w \in IndexWork, Opens(w, n), ~Opens(w, n)',
         \A v \in IndexWork : v # w => (Opens(v, n)' <=> Opens(v, n)),
         docs'[n].text = DocOf(n)'
  PROVE  NodeInOrder(n)'
  BY DEF NodeInOrder

\* One piece of work changes: what it is now, and what it is for other nodes.
LEMMA WorkMoves ==
  ASSUME IndexTypeOK, NEW w \in IndexWork, NEW r \in Work, work' = [work EXCEPT ![w] = r],
         r.op \in {"index", "embedded", "remove"} => r.node \in IndexNode,
         r.op = "embedded" => r.text # 0,
         r.list # {} => r.op = "removing"
  PROVE  /\ work' \in [IndexWork -> Work] /\ work'[w] = r
         /\ \A v \in IndexWork : v # w => work'[v] = work[v]
         /\ \A v \in IndexWork :
              /\ work'[v].op \in {"index", "embedded", "remove"} => work'[v].node \in IndexNode
              /\ work'[v].op = "embedded" => work'[v].text # 0
              /\ work'[v].list # {} => work'[v].op = "removing"
         /\ \A v \in IndexWork, n \in IndexNode : v # w => (Opens(v, n)' <=> Opens(v, n))
<1>1. work' \in [IndexWork -> Work] /\ work'[w] = r
      /\ \A v \in IndexWork : v # w => work'[v] = work[v]
  BY DEF IndexTypeOK
<1>2. \A v \in IndexWork :
        /\ work'[v].op \in {"index", "embedded", "remove"} => work'[v].node \in IndexNode
        /\ work'[v].op = "embedded" => work'[v].text # 0
        /\ work'[v].list # {} => work'[v].op = "removing"
  BY <1>1 DEF IndexTypeOK
<1>3. \A v \in IndexWork, n \in IndexNode : v # w => (Opens(v, n)' <=> Opens(v, n))
  BY <1>1 DEF Opens
<1> QED
  BY <1>1, <1>2, <1>3

\* Another's work fits as before when the node did not change.
LEMMA OthersFit ==
  ASSUME NEW v \in IndexWork, NEW n \in IndexNode, work'[v] = work[v], summary'[n] = summary[n]
  PROVE  Fits(v, n)' <=> Fits(v, n)
  BY DEF Fits

-----------------------------------------------------------------------------
\* Calls on the tree

LEMMA CallKeepsIndex ==
  ASSUME IndexIInv, NEW w \in IndexWork, NEW op \in {"index", "remove"}, NEW n \in IndexNode,
         NEW t \in Int, summary' = [summary EXCEPT ![n] = t], op = "remove" => t = Gone,
         Leaves(w, op, {n}, n, t)
  PROVE  IndexIInv'
<1> USE DEF IndexIInv
<1>1. /\ work[w].op = "unused" /\ UNCHANGED <<docs, lockedDim>>
      /\ work' = [work EXCEPT ![w] = [Unused EXCEPT !.op = op, !.node = n, !.text = t]]
      /\ outOfOrder' = outOfOrder \cup {k \in {n} : OpenWork(k) # {}}
  BY DEF Leaves
<1>2. PICK u \in Work : u = Unused /\ u.list = {}
  BY FinishedWork
<1>3. PICK r : r = [u EXCEPT !.op = op, !.node = n, !.text = t]
  OBVIOUS
<1>4. r \in Work /\ r.op = op /\ r.node = n /\ r.text = t /\ r.list = {}
  BY <1>2, <1>3 DEF Work
<1>5. work' = [work EXCEPT ![w] = r]
  BY <1>1, <1>2, <1>3
<1>6. /\ work' \in [IndexWork -> Work] /\ work'[w] = r
      /\ \A v \in IndexWork : v # w => work'[v] = work[v]
      /\ \A v \in IndexWork :
           /\ work'[v].op \in {"index", "embedded", "remove"} => work'[v].node \in IndexNode
           /\ work'[v].op = "embedded" => work'[v].text # 0
           /\ work'[v].list # {} => work'[v].op = "removing"
      /\ \A v \in IndexWork, k \in IndexNode : v # w => (Opens(v, k)' <=> Opens(v, k))
  BY <1>4, <1>5, WorkMoves
<1>7. IndexTypeOK'
  BY <1>1, <1>6 DEF IndexTypeOK
<1>8. \A k \in IndexNode : k # n => summary'[k] = summary[k]
  BY DEF IndexTypeOK
<1>9. summary'[n] = t
  BY DEF IndexTypeOK
<1>10. \A k \in IndexNode : ~Opens(w, k) /\ (Opens(w, k)' <=> k = n)
  BY <1>1, <1>4, <1>6 DEF Opens, IndexTypeOK
<1>11. ASSUME NEW k \in IndexNode \ outOfOrder'
       PROVE  NodeInOrder(k)'
  <2>1. k \notin outOfOrder /\ NodeInOrder(k)
    BY <1>1 DEF NodesInOrder
  <2>2. CASE k = n
    <3>1. OpenWork(n) = {}
      BY <1>1, <1>11, <2>2
    <3>2. \A v \in IndexWork : ~Opens(v, n)
      BY <3>1 DEF OpenWork, Opens
    <3>3. Fits(w, n)'
      BY <1>4, <1>6, <1>9 DEF Fits
    <3> QED
      BY <1>6, <1>10, <2>2, <3>2, <3>3, NodeOpened
  <2>3. CASE k # n
    <3>1. \A v \in IndexWork : Opens(v, k)' => Opens(v, k) /\ Fits(v, k)'
      BY <1>6, <1>8, <1>10, <2>1, <2>3, OthersFit DEF NodeInOrder
    <3>2. \A v \in IndexWork : Opens(v, k) => Opens(v, k)'
      BY <1>6, <1>10
    <3> QED
      BY <1>1, <1>8, <2>1, <2>3, <3>1, <3>2, NodeKept
  <2> QED
    BY <2>2, <2>3
<1>12. OneDimension'
  BY <1>1 DEF OneDimension
<1> QED
  BY <1>7, <1>11, <1>12 DEF NodesInOrder

LEMMA DeleteTreeKeepsIndex ==
  ASSUME IndexIInv, NEW w \in IndexWork, IndexDeleteTree(w)
  PROVE  IndexIInv'
<1> USE DEF IndexIInv
<1>1. /\ work[w].op = "unused" /\ UNCHANGED <<docs, lockedDim>>
      /\ summary' = [n \in IndexNode |-> Gone]
      /\ work' = [work EXCEPT ![w] = [Unused EXCEPT !.op = "list", !.node = 0, !.text = Gone]]
      /\ outOfOrder' = outOfOrder \cup {k \in IndexNode : OpenWork(k) # {}}
  BY DEF IndexDeleteTree, Leaves
<1>2. PICK u \in Work : u = Unused /\ u.list = {}
  BY FinishedWork
<1>3. PICK r : r = [u EXCEPT !.op = "list", !.node = 0, !.text = Gone]
  OBVIOUS
<1>4. r \in Work /\ r.op = "list" /\ r.list = {}
  BY <1>2, <1>3, NoDocument DEF Work
<1>5. work' = [work EXCEPT ![w] = r]
  BY <1>1, <1>2, <1>3
<1>6. /\ work' \in [IndexWork -> Work] /\ work'[w] = r
      /\ \A v \in IndexWork : v # w => work'[v] = work[v]
      /\ \A v \in IndexWork :
           /\ work'[v].op \in {"index", "embedded", "remove"} => work'[v].node \in IndexNode
           /\ work'[v].op = "embedded" => work'[v].text # 0
           /\ work'[v].list # {} => work'[v].op = "removing"
      /\ \A v \in IndexWork, k \in IndexNode : v # w => (Opens(v, k)' <=> Opens(v, k))
  BY <1>4, <1>5, WorkMoves
<1>7. IndexTypeOK'
  BY <1>1, <1>6, NoDocument DEF IndexTypeOK
<1>8. ASSUME NEW k \in IndexNode \ outOfOrder'
      PROVE  NodeInOrder(k)'
  <2>1. OpenWork(k) = {}
    BY <1>1, <1>8
  <2>2. \A v \in IndexWork : ~Opens(v, k)
    BY <2>1 DEF OpenWork, Opens
  <2>3. Opens(w, k)' /\ Fits(w, k)'
    BY <1>1, <1>4, <1>6 DEF Opens, Fits
  <2> QED
    BY <1>6, <2>2, <2>3, NodeOpened
<1>9. OneDimension'
  BY <1>1 DEF OneDimension
<1> QED
  BY <1>7, <1>8, <1>9 DEF NodesInOrder

LEMMA PromoteKeepsIndex ==
  ASSUME IndexIInv, NEW n \in IndexNode, PromoteBehind(n)
  PROVE  IndexIInv'
<1> USE DEF IndexIInv
<1>1. PICK t \in 1..MaxSummary : summary' = [summary EXCEPT ![n] = t]
  BY DEF PromoteBehind
<1>2. outOfOrder' = outOfOrder \cup {n} /\ UNCHANGED <<docs, lockedDim, work>>
  BY DEF PromoteBehind
<1>3. IndexTypeOK'
  BY <1>1, <1>2 DEF IndexTypeOK
<1>4. \A k \in IndexNode : k # n => summary'[k] = summary[k]
  BY <1>1 DEF IndexTypeOK
<1>5. ASSUME NEW k \in IndexNode \ outOfOrder'
      PROVE  NodeInOrder(k)'
  <2>1. k # n /\ NodeInOrder(k)
    BY <1>2, <1>5 DEF NodesInOrder
  <2>2. \A v \in IndexWork : Opens(v, k)' <=> Opens(v, k)
    BY <1>2 DEF Opens
  <2>3. \A v \in IndexWork : Opens(v, k) => Fits(v, k)'
    BY <1>2, <1>4, <2>1, OthersFit DEF NodeInOrder
  <2> QED
    BY <1>2, <1>4, <2>1, <2>2, <2>3, NodeKept
<1>6. OneDimension'
  BY <1>2 DEF OneDimension
<1> QED
  BY <1>3, <1>5, <1>6 DEF NodesInOrder

-----------------------------------------------------------------------------
\* Work on the index

\* Work that is given up leaves the nodes it was for out of order.
LEMMA DropKeepsIndex ==
  ASSUME IndexIInv, NEW w \in IndexWork, EndWork(w), UNCHANGED <<summary, docs, lockedDim>>,
         outOfOrder \subseteq outOfOrder',
         \A n \in IndexNode : Opens(w, n) => n \in outOfOrder'
  PROVE  IndexIInv'
<1> USE DEF IndexIInv
<1>1. PICK r \in Work : r = Finished /\ r.op = "finished" /\ r.list = {}
  BY FinishedWork
<1>2. work' = [work EXCEPT ![w] = r]
  BY <1>1 DEF EndWork
<1>3. /\ work' \in [IndexWork -> Work] /\ work'[w] = r
      /\ \A v \in IndexWork : v # w => work'[v] = work[v]
      /\ \A v \in IndexWork :
           /\ work'[v].op \in {"index", "embedded", "remove"} => work'[v].node \in IndexNode
           /\ work'[v].op = "embedded" => work'[v].text # 0
           /\ work'[v].list # {} => work'[v].op = "removing"
      /\ \A v \in IndexWork, k \in IndexNode : v # w => (Opens(v, k)' <=> Opens(v, k))
  BY <1>1, <1>2, WorkMoves
<1>4. IndexTypeOK'
  BY <1>3 DEF IndexTypeOK
<1>5. \A k \in IndexNode : ~Opens(w, k)'
  BY <1>1, <1>3 DEF Opens
<1>6. ASSUME NEW k \in IndexNode \ outOfOrder'
      PROVE  NodeInOrder(k)'
  <2>1. NodeInOrder(k) /\ ~Opens(w, k)
    BY <1>6 DEF NodesInOrder
  <2>2. \A v \in IndexWork : Opens(v, k)' => Opens(v, k) /\ Fits(v, k)'
    BY <1>3, <1>5, <2>1, OthersFit DEF NodeInOrder
  <2>3. \A v \in IndexWork : Opens(v, k) => Opens(v, k)'
    BY <1>3, <2>1
  <2> QED
    BY <2>1, <2>2, <2>3, NodeKept
<1>7. OneDimension'
  BY DEF OneDimension
<1> QED
  BY <1>4, <1>6, <1>7 DEF NodesInOrder

\* Work that is done: the document of its node is now what the summary says.
LEMMA DoneKeepsIndex ==
  ASSUME IndexIInv, NEW w \in IndexWork, EndWork(w), UNCHANGED <<summary, outOfOrder>>,
         work[w].op \in {"index", "embedded", "remove"},
         (docs \in [IndexNode -> [text : Int, dim : Dims \cup {0}]])', (lockedDim \in Dims \cup {0})',
         OneDimension',
         \A k \in IndexNode : k # work[w].node => docs'[k] = docs[k],
         Fits(w, work[w].node) => docs'[work[w].node].text = DocOf(work[w].node)
  PROVE  IndexIInv'
<1> USE DEF IndexIInv
<1>0. PICK n \in IndexNode : n = work[w].node
  BY DEF IndexTypeOK
<1>1. PICK r \in Work : r = Finished /\ r.op = "finished" /\ r.list = {}
  BY FinishedWork
<1>2. work' = [work EXCEPT ![w] = r]
  BY <1>1 DEF EndWork
<1>3. /\ work' \in [IndexWork -> Work] /\ work'[w] = r
      /\ \A v \in IndexWork : v # w => work'[v] = work[v]
      /\ \A v \in IndexWork :
           /\ work'[v].op \in {"index", "embedded", "remove"} => work'[v].node \in IndexNode
           /\ work'[v].op = "embedded" => work'[v].text # 0
           /\ work'[v].list # {} => work'[v].op = "removing"
      /\ \A v \in IndexWork, k \in IndexNode : v # w => (Opens(v, k)' <=> Opens(v, k))
  BY <1>1, <1>2, WorkMoves
<1>4. IndexTypeOK'
  BY <1>3 DEF IndexTypeOK
<1>5. \A k \in IndexNode : ~Opens(w, k)' /\ (Opens(w, k) <=> k = n)
  BY <1>0, <1>1, <1>3 DEF Opens, IndexTypeOK
<1>6. ASSUME NEW k \in IndexNode \ outOfOrder'
      PROVE  NodeInOrder(k)'
  <2>1. NodeInOrder(k)
    BY <1>6 DEF NodesInOrder
  <2>2. CASE k = n
    <3>1. Fits(w, n)
      BY <1>5, <2>1, <2>2 DEF NodeInOrder
    <3>2. docs'[n].text = DocOf(n)'
      BY <1>0, <3>1 DEF DocOf
    <3> QED
      BY <1>3, <1>5, <2>1, <2>2, <3>2, NodeClosed
  <2>3. CASE k # n
    <3>1. \A v \in IndexWork : Opens(v, k)' => Opens(v, k) /\ Fits(v, k)'
      BY <1>3, <1>5, <2>1, OthersFit DEF NodeInOrder
    <3>2. \A v \in IndexWork : Opens(v, k) => Opens(v, k)'
      BY <1>3, <1>5, <2>3
    <3> QED
      BY <1>0, <2>1, <2>3, <3>1, <3>2, NodeKept
  <2> QED
    BY <2>2, <2>3
<1> QED
  BY <1>4, <1>6 DEF NodesInOrder

\* Removing a document.
LEMMA DeletedDoc ==
  ASSUME IndexTypeOK, OneDimension, NEW n \in IndexNode, DeleteDoc(n)
  PROVE  /\ (docs \in [IndexNode -> [text : Int, dim : Dims \cup {0}]])' /\ (lockedDim \in Dims \cup {0})'
         /\ OneDimension'
         /\ \A k \in IndexNode : k # n => docs'[k] = docs[k]
         /\ docs'[n] = NoDoc /\ docs'[n].text = Gone
<1>1. PICK no \in [text : Int, dim : Dims \cup {0}] : no = NoDoc /\ no.text = Gone
  BY NoDocument
<1>2. docs' = [docs EXCEPT ![n] = no] /\ lockedDim' = lockedDim
  BY <1>1 DEF DeleteDoc
<1>3. docs'[n] = no /\ \A k \in IndexNode : k # n => docs'[k] = docs[k]
  BY <1>2 DEF IndexTypeOK
<1>4. OneDimension'
  BY <1>1, <1>2, <1>3 DEF OneDimension, NoDoc
<1> QED
  BY <1>1, <1>2, <1>3, <1>4 DEF IndexTypeOK

\* The first document locks the dimension; there is none of another before.
LEMMA AddedDoc ==
  ASSUME IndexTypeOK, OneDimension, NEW n \in IndexNode, NEW t \in Int, NEW d \in Dims, AddDoc(n, t, d)
  PROVE  /\ (docs \in [IndexNode -> [text : Int, dim : Dims \cup {0}]])' /\ (lockedDim \in Dims \cup {0})'
         /\ OneDimension'
         /\ \A k \in IndexNode : k # n => docs'[k] = docs[k]
         /\ docs'[n].text = t
<1>1. PICK doc : doc = Doc(t, d)
  OBVIOUS
<1>2. doc \in [text : Int, dim : Dims \cup {0}] /\ doc.text = t /\ doc.dim = d
  BY <1>1 DEF Doc
<1>3. docs' = [docs EXCEPT ![n] = doc] /\ lockedDim' = d /\ lockedDim \in {0, d}
  BY <1>1 DEF AddDoc
<1>4. docs'[n] = doc /\ \A k \in IndexNode : k # n => docs'[k] = docs[k]
  BY <1>3 DEF IndexTypeOK
<1>5. d # 0
  BY IndexAssumption
<1>6. \A k \in IndexNode : docs'[k] # NoDoc => docs'[k].dim = d
  BY <1>2, <1>3, <1>4 DEF OneDimension
<1>7. OneDimension'
  BY <1>3, <1>5, <1>6 DEF OneDimension, NoDoc
<1> QED
  BY <1>2, <1>3, <1>4, <1>7 DEF IndexTypeOK

LEMMA EmbedKeepsIndex ==
  ASSUME IndexIInv, NEW w \in IndexWork, EmbedNode(w)
  PROVE  IndexIInv'
<1> USE DEF IndexIInv
<1>1. work[w].op = "index" /\ work[w] \in Work
  BY DEF EmbedNode, IndexTypeOK
<1>2. PICK n \in IndexNode : n = work[w].node
  BY <1>1 DEF IndexTypeOK
<1>3. CASE work[w].text = 0 /\ DeleteDoc(n) /\ EndWork(w) /\ UNCHANGED <<summary, outOfOrder>>
  <2>1. DeleteDoc(n) /\ EndWork(w) /\ UNCHANGED <<summary, outOfOrder>>
    BY <1>3
  <2>2. Fits(w, n) => DocOf(n) = Gone
    BY <1>1, <1>3 DEF Fits, DocOf
  <2>3. /\ (docs \in [IndexNode -> [text : Int, dim : Dims \cup {0}]])' /\ (lockedDim \in Dims \cup {0})'
        /\ OneDimension'
        /\ \A k \in IndexNode : k # n => docs'[k] = docs[k]
        /\ docs'[n].text = Gone
    BY <2>1, DeletedDoc
  <2> QED
    BY <1>1, <1>2, <2>1, <2>2, <2>3, DoneKeepsIndex
<1>4. CASE Dropped(w)
  <2>1. \A k \in IndexNode : Opens(w, k) => k = n
    BY <1>1, <1>2 DEF Opens, IndexTypeOK
  <2> QED
    BY <1>2, <1>4, <2>1, DropKeepsIndex DEF Dropped
<1>5. CASE /\ work[w].text # 0 /\ work' = [work EXCEPT ![w].op = "embedded"]
           /\ UNCHANGED <<summary, docs, lockedDim, outOfOrder>>
  <2>1. PICK r : r = [work[w] EXCEPT !.op = "embedded"]
    OBVIOUS
  <2>2. /\ r \in Work /\ r.op = "embedded" /\ r.node = n /\ r.text = work[w].text
        /\ r.list = work[w].list
    BY <1>1, <1>2, <2>1 DEF Work
  <2>3. work' = [work EXCEPT ![w] = r] /\ r.list = {}
    BY <1>1, <1>5, <2>1, <2>2 DEF IndexTypeOK
  <2>4. /\ work' \in [IndexWork -> Work] /\ work'[w] = r
        /\ \A v \in IndexWork : v # w => work'[v] = work[v]
        /\ \A v \in IndexWork :
             /\ work'[v].op \in {"index", "embedded", "remove"} => work'[v].node \in IndexNode
             /\ work'[v].op = "embedded" => work'[v].text # 0
             /\ work'[v].list # {} => work'[v].op = "removing"
        /\ \A v \in IndexWork, k \in IndexNode : v # w => (Opens(v, k)' <=> Opens(v, k))
    BY <1>5, <2>2, <2>3, WorkMoves
  <2>5. IndexTypeOK'
    BY <1>5, <2>4 DEF IndexTypeOK
  <2>6. ASSUME NEW k \in IndexNode
        PROVE  (Opens(w, k)' <=> Opens(w, k)) /\ (Fits(w, k)' <=> Fits(w, k))
    BY <1>1, <1>2, <1>5, <2>2, <2>3, <2>4 DEF Opens, Fits
  <2>7. ASSUME NEW k \in IndexNode \ outOfOrder'
        PROVE  NodeInOrder(k)'
    <3>1. NodeInOrder(k)
      BY <1>5, <2>7 DEF NodesInOrder
    <3>2. \A v \in IndexWork : Opens(v, k)' <=> Opens(v, k)
      BY <2>4, <2>6
    <3>3. \A v \in IndexWork : Opens(v, k) => Fits(v, k)'
      BY <1>5, <2>4, <2>6, <3>1, OthersFit DEF NodeInOrder
    <3> QED
      BY <1>5, <3>1, <3>2, <3>3, NodeKept
  <2>8. OneDimension'
    BY <1>5 DEF OneDimension
  <2> QED
    BY <2>5, <2>7, <2>8 DEF NodesInOrder
<1> QED
  BY <1>2, <1>3, <1>4, <1>5 DEF EmbedNode

LEMMA StoreRemoveKeepsIndex ==
  ASSUME IndexIInv, NEW w \in IndexWork, StoreNode(w) \/ RemoveNode(w)
  PROVE  IndexIInv'
<1> USE DEF IndexIInv
<1>1. work[w].op \in {"embedded", "remove"} /\ work[w] \in Work
  BY DEF StoreNode, RemoveNode, IndexTypeOK
<1>2. PICK n \in IndexNode : n = work[w].node
  BY <1>1 DEF IndexTypeOK
<1>3. CASE Dropped(w)
  <2>1. \A k \in IndexNode : Opens(w, k) => k = n
    BY <1>1, <1>2 DEF Opens, IndexTypeOK
  <2> QED
    BY <1>2, <1>3, <2>1, DropKeepsIndex DEF Dropped
<1>4. CASE StoreNode(w) /\ ~Dropped(w)
  <2>1. PICK d \in Dims : AddDoc(n, work[w].text, d)
    BY <1>2, <1>4 DEF StoreNode
  <2>2. EndWork(w) /\ UNCHANGED <<summary, outOfOrder>> /\ work[w].op = "embedded"
    BY <1>4 DEF StoreNode
  <2>3. work[w].text \in Int /\ work[w].text # 0
    BY <1>1, <2>2 DEF Work, IndexTypeOK
  <2>4. /\ (docs \in [IndexNode -> [text : Int, dim : Dims \cup {0}]])' /\ (lockedDim \in Dims \cup {0})'
        /\ OneDimension'
        /\ \A k \in IndexNode : k # n => docs'[k] = docs[k]
        /\ docs'[n].text = work[w].text
    BY <2>1, <2>3, AddedDoc
  <2>5. Fits(w, n) => DocOf(n) = work[w].text
    BY <2>2, <2>3 DEF Fits, DocOf
  <2> QED
    BY <1>1, <1>2, <2>2, <2>4, <2>5, DoneKeepsIndex
<1>5. CASE RemoveNode(w) /\ ~Dropped(w)
  <2>1. DeleteDoc(n) /\ EndWork(w) /\ UNCHANGED <<summary, outOfOrder>> /\ work[w].op = "remove"
    BY <1>2, <1>5 DEF RemoveNode
  <2>2. Fits(w, n) => DocOf(n) = Gone
    BY <2>1 DEF Fits, DocOf
  <2>3. /\ (docs \in [IndexNode -> [text : Int, dim : Dims \cup {0}]])' /\ (lockedDim \in Dims \cup {0})'
        /\ OneDimension'
        /\ \A k \in IndexNode : k # n => docs'[k] = docs[k]
        /\ docs'[n].text = Gone
    BY <2>1, DeletedDoc
  <2> QED
    BY <1>1, <1>2, <2>1, <2>2, <2>3, DoneKeepsIndex
<1> QED
  BY <1>3, <1>4, <1>5

LEMMA ListKeepsIndex ==
  ASSUME IndexIInv, NEW w \in IndexWork, ListDocs(w)
  PROVE  IndexIInv'
<1> USE DEF IndexIInv
<1> DEFINE there == {n \in IndexNode : docs[n] # NoDoc}
<1>1. work[w].op = "list" /\ work[w] \in Work
  BY DEF ListDocs, IndexTypeOK
<1>2. CASE /\ EndWork(w) /\ outOfOrder' = outOfOrder \cup IndexNode
           /\ UNCHANGED <<summary, docs, lockedDim>>
  BY <1>2, DropKeepsIndex
<1>3. CASE /\ work' = [work EXCEPT ![w].op = IF there = {} THEN "finished" ELSE "removing",
                                   ![w].list = there]
           /\ UNCHANGED <<summary, docs, lockedDim, outOfOrder>>
  <2>1. PICK r : r = [work[w] EXCEPT !.op = IF there = {} THEN "finished" ELSE "removing", !.list = there]
    OBVIOUS
  <2>2. r \in Work /\ r.list = there /\ r.op = IF there = {} THEN "finished" ELSE "removing"
    BY <1>1, <2>1 DEF Work
  <2>3. work' = [work EXCEPT ![w] = r]
    BY <1>3, <2>1 DEF IndexTypeOK
  <2> HIDE DEF there
  <2>4. /\ work' \in [IndexWork -> Work] /\ work'[w] = r
        /\ \A v \in IndexWork : v # w => work'[v] = work[v]
        /\ \A v \in IndexWork :
             /\ work'[v].op \in {"index", "embedded", "remove"} => work'[v].node \in IndexNode
             /\ work'[v].op = "embedded" => work'[v].text # 0
             /\ work'[v].list # {} => work'[v].op = "removing"
        /\ \A v \in IndexWork, k \in IndexNode : v # w => (Opens(v, k)' <=> Opens(v, k))
    BY <2>2, <2>3, WorkMoves
  <2>5. IndexTypeOK'
    BY <1>3, <2>4 DEF IndexTypeOK
  <2>6. \A k \in IndexNode : Opens(w, k) /\ (Opens(w, k)' <=> docs[k] # NoDoc)
    BY <1>1, <2>2, <2>4 DEF Opens, there
  <2>7. ASSUME NEW k \in IndexNode \ outOfOrder'
        PROVE  NodeInOrder(k)'
    <3>1. NodeInOrder(k)
      BY <1>3, <2>7 DEF NodesInOrder
    <3>2. summary[k] = Gone
      BY <1>1, <2>6, <3>1 DEF NodeInOrder, Fits
    <3>3. CASE docs[k] = NoDoc
      <4>1. docs'[k].text = DocOf(k)'
        BY <1>3, <3>2, <3>3, NoDocument DEF DocOf, Gone
      <4> QED
        BY <2>4, <2>6, <3>1, <3>3, <4>1, NodeClosed
    <3>4. CASE docs[k] # NoDoc
      <4>1. Fits(w, k)'
        BY <1>3, <2>2, <2>4, <3>2 DEF Fits
      <4>2. \A v \in IndexWork : v # w => ~Opens(v, k)
        BY <2>6, <3>1 DEF NodeInOrder
      <4> QED
        BY <2>4, <2>6, <3>4, <4>1, <4>2, NodeOpened
    <3> QED
      BY <3>3, <3>4
  <2>8. OneDimension'
    BY <1>3 DEF OneDimension
  <2> QED
    BY <2>5, <2>7, <2>8 DEF NodesInOrder
<1> QED
  BY <1>2, <1>3 DEF ListDocs

LEMMA RemoveListedKeepsIndex ==
  ASSUME IndexIInv, NEW w \in IndexWork, RemoveListed(w)
  PROVE  IndexIInv'
<1> USE DEF IndexIInv
<1>1. PICK n \in work[w].list :
        /\ work' = [work EXCEPT ![w].list = @ \ {n},
                                ![w].op = IF work[w].list = {n} THEN "finished" ELSE @]
        /\ \/ DeleteDoc(n) /\ UNCHANGED outOfOrder
           \/ outOfOrder' = outOfOrder \cup {n} /\ UNCHANGED <<docs, lockedDim>>
        /\ UNCHANGED summary
  BY DEF RemoveListed
<1>2. work[w] \in Work /\ n \in IndexNode /\ work[w].op = "removing"
  BY DEF IndexTypeOK, Work
<1>3. PICK r : r = [work[w] EXCEPT !.list = @ \ {n}, !.op = IF work[w].list = {n} THEN "finished" ELSE @]
  OBVIOUS
<1>4. /\ r \in Work /\ r.list = work[w].list \ {n}
      /\ r.op = IF work[w].list = {n} THEN "finished" ELSE "removing"
  BY <1>2, <1>3 DEF Work
<1>5. work' = [work EXCEPT ![w] = r]
  BY <1>1, <1>3 DEF IndexTypeOK
<1>6. /\ work' \in [IndexWork -> Work] /\ work'[w] = r
      /\ \A v \in IndexWork : v # w => work'[v] = work[v]
      /\ \A v \in IndexWork :
           /\ work'[v].op \in {"index", "embedded", "remove"} => work'[v].node \in IndexNode
           /\ work'[v].op = "embedded" => work'[v].text # 0
           /\ work'[v].list # {} => work'[v].op = "removing"
      /\ \A v \in IndexWork, k \in IndexNode : v # w => (Opens(v, k)' <=> Opens(v, k))
  BY <1>4, <1>5, WorkMoves
<1>7. /\ (docs \in [IndexNode -> [text : Int, dim : Dims \cup {0}]])' /\ (lockedDim \in Dims \cup {0})'
      /\ OneDimension'
      /\ \A k \in IndexNode : k # n => docs'[k] = docs[k]
      /\ docs'[n].text = Gone \/ n \in outOfOrder'
  <2>1. CASE DeleteDoc(n)
    BY <1>2, <2>1, DeletedDoc
  <2>2. CASE outOfOrder' = outOfOrder \cup {n} /\ UNCHANGED <<docs, lockedDim>>
    BY <2>2 DEF IndexTypeOK, OneDimension
  <2> QED
    BY <1>1, <2>1, <2>2
<1>8. IndexTypeOK'
  BY <1>1, <1>6, <1>7 DEF IndexTypeOK
<1>9. \A k \in IndexNode : (Opens(w, k) <=> k \in work[w].list) /\ (Opens(w, k)' <=> k \in work[w].list \ {n})
  BY <1>2, <1>4, <1>6 DEF Opens
<1>10. ASSUME NEW k \in IndexNode \ outOfOrder'
       PROVE  NodeInOrder(k)'
  <2>1. NodeInOrder(k)
    BY <1>1, <1>10 DEF NodesInOrder
  <2>2. CASE k = n
    <3>1. Opens(w, k) /\ ~Opens(w, k)'
      BY <1>9, <2>2
    <3>2. summary[k] = Gone
      BY <1>2, <2>1, <3>1 DEF NodeInOrder, Fits
    <3>3. docs'[k].text = DocOf(k)'
      BY <1>1, <1>7, <1>10, <2>2, <3>2 DEF DocOf, Gone
    <3> QED
      BY <1>6, <2>1, <3>1, <3>3, NodeClosed
  <2>3. CASE k # n
    <3>1. \A v \in IndexWork : Opens(v, k)' <=> Opens(v, k)
      BY <1>6, <1>9, <2>3
    <3>2. Opens(w, k) => Fits(w, k)'
      <4>1. Opens(w, k) => summary[k] = Gone
        BY <1>2, <2>1 DEF NodeInOrder, Fits
      <4>2. r.op \notin {"index", "embedded"}
        BY <1>4
      <4> QED
        BY <1>1, <1>6, <4>1, <4>2 DEF Fits
    <3>3. \A v \in IndexWork : Opens(v, k) => Fits(v, k)'
      BY <1>1, <1>6, <2>1, <3>2, OthersFit DEF NodeInOrder
    <3> QED
      BY <1>1, <1>7, <2>1, <2>3, <3>1, <3>3, NodeKept
  <2> QED
    BY <2>2, <2>3
<1> QED
  BY <1>7, <1>8, <1>10 DEF NodesInOrder

LEMMA IndexStepKeeps ==
  ASSUME IndexIInv, [IndexStep]_indexVars
  PROVE  IndexIInv'
<1>1. CASE UNCHANGED indexVars
  <2>1. IndexTypeOK' /\ OneDimension'
    BY <1>1 DEF indexVars, IndexIInv, IndexTypeOK, OneDimension
  <2>2. NodesInOrder'
    BY <1>1 DEF indexVars, IndexIInv, NodesInOrder, NodeInOrder, Opens, Fits, DocOf
  <2> QED
    BY <2>1, <2>2 DEF IndexIInv
<1>2. ASSUME NEW w \in IndexWork, NEW n \in IndexNode, IndexAdd(w, n) \/ IndexUpdate(w, n)
      PROVE  IndexIInv'
  <2>1. PICK t \in 0..MaxSummary : summary' = [summary EXCEPT ![n] = t] /\ Leaves(w, "index", {n}, n, t)
    BY <1>2 DEF IndexAdd, IndexUpdate
  <2>2. t \in Int
    OBVIOUS
  <2> QED
    BY <2>1, <2>2, CallKeepsIndex
<1>3. ASSUME NEW w \in IndexWork, NEW n \in IndexNode, IndexDelete(w, n)
      PROVE  IndexIInv'
  BY <1>3, CallKeepsIndex, NoDocument DEF IndexDelete
<1> QED
  BY <1>1, <1>2, <1>3, PromoteKeepsIndex, DeleteTreeKeepsIndex, ListKeepsIndex, RemoveListedKeepsIndex,
     EmbedKeepsIndex, StoreRemoveKeepsIndex DEF IndexStep

\* For any nodes, calls and summaries, with index work in any order: a node
\* whose work is done has the document its summary asks for, unless work on it
\* overlapped or failed or its summary changed behind the decorator, and all
\* vectors have the dimension of the first.
THEOREM IndexFollowsTree == IndexSpec => []IndexFollows
<1>1. IndexInit => IndexIInv
  BY IndexInitial
<1>2. IndexIInv /\ [IndexStep]_indexVars => IndexIInv'
  BY IndexStepKeeps
<1>3. IndexIInv => IndexFollows
  <2> SUFFICES ASSUME IndexIInv, NEW n \in IndexNode
               PROVE  /\ n \notin outOfOrder /\ OpenWork(n) = {} =>
                           docs[n].text = IF summary[n] = 0 THEN Gone ELSE summary[n]
                      /\ docs[n] # NoDoc => docs[n].dim = lockedDim
    BY DEF IndexFollows
  <2>1. OpenWork(n) = {} => \A w \in IndexWork : ~Opens(w, n)
    BY DEF OpenWork, Opens
  <2> QED
    BY <2>1 DEF IndexIInv, NodesInOrder, NodeInOrder, DocOf, OneDimension
<1> QED
  BY <1>1, <1>2, <1>3, PTL DEF IndexSpec

-----------------------------------------------------------------------------
\* The hooks

\* What a consumer holds.

Job == {Nobody} \cup {<<e>> : e \in Event}

HooksTypeOK ==
  /\ etype \in [Event -> EventType]
  /\ dispatch \in [Event -> {"new", "async", "returned", "panicked"}]
  /\ nextHook \in [Event -> Nat] /\ seen \in [Event -> 0..2] /\ registered \in 1..2
  /\ \A e \in Event : nextHook[e] >= 1
  /\ chan \in [AsyncHook -> Seq(Event)] /\ accepted \in [AsyncHook -> Seq(Event)]
  /\ working \in [AsyncHook -> Job]
  /\ consumers \in [AsyncHook -> {0, 1}] /\ hookStarts \in [AsyncHook -> {0, 1}]
  /\ log \in Seq(Event) /\ counted \subseteq Event /\ IsFiniteSet(counted)

\* How many of the events it accepted a hook is done with.
Handled(h) == Len(accepted[h]) - Len(chan[h]) - (IF working[h] = Nobody THEN 0 ELSE 1)

\* The event being handled and those in the channel are the last accepted, in
\* order; no event is accepted twice, since its dispatcher goes from hook to hook.
ChannelInOrder(h) ==
  /\ Handled(h) >= 0
  /\ \A i \in 1..Len(chan[h]) : chan[h][i] = accepted[h][Len(accepted[h]) - Len(chan[h]) + i]
  /\ working[h] # Nobody => working[h] = <<accepted[h][Handled(h) + 1]>>
  /\ IsInjective(accepted[h])
  /\ \A p \in 1..Len(accepted[h]) : nextHook[accepted[h][p]] > h

\* Log l holds, in order, what is not in m of the first n events of a.
LogFollows(a, n, l, m) ==
  /\ IsInjective(l)
  /\ \A i \in 1..Len(l) : \E p \in 1..n :
       /\ a[p] = l[i]
       /\ \A q \in 1..(p - 1) : a[q] \in m \/ \E k \in 1..(i - 1) : l[k] = a[q]
  /\ \A p \in 1..n : a[p] \in m \/ \E k \in 1..Len(l) : l[k] = a[p]

\* Documents d are some of the first n events of a, all that are not in m.
DocumentsFollow(a, n, d, m) ==
  /\ \A x \in d : \E p \in 1..n : a[p] = x
  /\ \A p \in 1..n : a[p] \in d \cup m

StoresFollow ==
  /\ LogFollows(accepted[1], Handled(1), log, missed)
  /\ DocumentsFollow(accepted[2], Handled(2), documents, missed)

\* A started hook is without a consumer only when its channel is closed and
\* drained; Stop waited for just that.
Draining ==
  /\ \A h \in AsyncHook :
       /\ consumers[h] = 0 => working[h] = Nobody
       /\ hookStarts[h] = 0 => consumers[h] = 0
       /\ hookStarts[h] = 1 /\ consumers[h] = 0 => h \in closed /\ chan[h] = <<>>
       /\ h \in stopDone => consumers[h] = 0
  /\ stopDone \subseteq AsyncHook
  /\ stopDone # {} => stopping # 0

MetricsExact ==
  /\ tokenCount = CountedOf("llm_call_end") /\ activeSeconds = CountedOf("agent_end")
  /\ \A e \in counted : dispatch[e] # "new"

HooksIInv ==
  HooksTypeOK /\ (\A h \in AsyncHook : ChannelInOrder(h)) /\ StoresFollow /\ Draining /\ MetricsExact

-----------------------------------------------------------------------------
\* Sequences

LEMMA LogGrows ==
  ASSUME NEW a \in Seq(Event), NEW n \in Nat, n < Len(a), IsInjective(a), NEW l \in Seq(Event),
         NEW m, LogFollows(a, n, l, m)
  PROVE  LogFollows(a, n + 1, Append(l, a[n + 1]), m)
<1> DEFINE l2 == Append(l, a[n + 1])
<1>1. a[n + 1] \in Event
  OBVIOUS
<1>2. /\ l2 \in Seq(Event) /\ Len(l2) = Len(l) + 1 /\ l2[Len(l) + 1] = a[n + 1]
      /\ \A k \in 1..Len(l) : l2[k] = l[k]
  BY <1>1
<1>3. \A k \in 1..Len(l) : l[k] # a[n + 1]
  <2> SUFFICES ASSUME NEW k \in 1..Len(l), l[k] = a[n + 1]
               PROVE  FALSE
    OBVIOUS
  <2>1. PICK p \in 1..n : a[p] = l[k]
    BY DEF LogFollows
  <2> QED
    BY <2>1 DEF IsInjective
<1> HIDE DEF l2
<1>4. IsInjective(l2)
  <2> SUFFICES ASSUME NEW i \in 1..(Len(l) + 1), NEW j \in 1..(Len(l) + 1), l2[i] = l2[j]
               PROVE  i = j
    BY <1>2 DEF IsInjective
  <2>1. CASE i \in 1..Len(l) /\ j \in 1..Len(l)
    <3>1. l[i] = l[j]
      BY <2>1, <1>2
    <3>2. IsInjective(l) /\ DOMAIN l = 1..Len(l)
      BY DEF LogFollows
    <3> QED
      BY <2>1, <3>1, <3>2 DEF IsInjective
  <2>2. CASE i = Len(l) + 1 \/ j = Len(l) + 1
    BY <2>2, <1>2, <1>3
  <2> QED
    BY <2>1, <2>2
<1>5. ASSUME NEW i \in 1..Len(l2)
      PROVE  \E p \in 1..(n + 1) :
               /\ a[p] = l2[i]
               /\ \A q \in 1..(p - 1) : a[q] \in m \/ \E k \in 1..(i - 1) : l2[k] = a[q]
  <2>1. CASE i = Len(l) + 1
    <3>1. \A q \in 1..n : a[q] \in m \/ \E k \in 1..Len(l) : l2[k] = a[q]
      BY <1>2 DEF LogFollows
    <3>2. n + 1 \in 1..(n + 1) /\ a[n + 1] = l2[i] /\ (n + 1) - 1 = n /\ i - 1 = Len(l)
      BY SMTT(40), <2>1, <1>2
    <3> QED
      BY <3>1, <3>2
  <2>2. CASE i \in 1..Len(l)
    <3>1. PICK p \in 1..n :
            /\ a[p] = l[i]
            /\ \A q \in 1..(p - 1) : a[q] \in m \/ \E k \in 1..(i - 1) : l[k] = a[q]
      BY <2>2 DEF LogFollows
    <3>2. \A q \in 1..(p - 1) : a[q] \in m \/ \E k \in 1..(i - 1) : l2[k] = a[q]
      <4>1. \A k \in 1..(i - 1) : k \in 1..Len(l)
        BY <2>2
      <4> QED
        BY <3>1, <4>1, <1>2
    <3>3. p \in 1..(n + 1) /\ a[p] = l2[i]
      BY <2>2, <3>1, <1>2
    <3> QED
      BY <3>2, <3>3
  <2> QED
    BY <2>1, <2>2, <1>2
<1>6. ASSUME NEW p \in 1..(n + 1)
      PROVE  a[p] \in m \/ \E k \in 1..Len(l2) : l2[k] = a[p]
  <2>1. CASE p = n + 1
    BY <2>1, <1>2
  <2>2. CASE p \in 1..n
    BY <2>2, <1>2 DEF LogFollows
  <2> QED
    BY <2>1, <2>2
<1>7. LogFollows(a, n + 1, l2, m)
  BY <1>4, <1>5, <1>6 DEF LogFollows
<1> QED
  BY <1>7 DEF l2

LEMMA LogMisses ==
  ASSUME NEW a \in Seq(Event), NEW n \in Nat, n < Len(a), NEW l \in Seq(Event), NEW m, NEW m2,
         LogFollows(a, n, l, m), m2 = m \cup {a[n + 1]}
  PROVE  LogFollows(a, n + 1, l, m2)
<1>1. ASSUME NEW i \in 1..Len(l)
      PROVE  \E p \in 1..(n + 1) :
               /\ a[p] = l[i]
               /\ \A q \in 1..(p - 1) : a[q] \in m2 \/ \E k \in 1..(i - 1) : l[k] = a[q]
  <2>1. PICK p \in 1..n :
          /\ a[p] = l[i]
          /\ \A q \in 1..(p - 1) : a[q] \in m \/ \E k \in 1..(i - 1) : l[k] = a[q]
    BY DEF LogFollows
  <2>2. p \in 1..(n + 1)
    OBVIOUS
  <2>3. \A q \in 1..(p - 1) : a[q] \in m2 \/ \E k \in 1..(i - 1) : l[k] = a[q]
    BY <2>1
  <2> QED
    BY <2>1, <2>2, <2>3
<1>2. ASSUME NEW p \in 1..(n + 1)
      PROVE  a[p] \in m2 \/ \E k \in 1..Len(l) : l[k] = a[p]
  <2>1. p = n + 1 \/ p \in 1..n
    OBVIOUS
  <2> QED
    BY <2>1 DEF LogFollows
<1> QED
  BY <1>1, <1>2 DEF LogFollows

\* What else may change: later events of a, and more in m.
LEMMA LogStays ==
  ASSUME NEW a, NEW a2, NEW n \in Nat, \A p \in 1..n : a2[p] = a[p], NEW l \in Seq(Event),
         NEW m, NEW m2, m \subseteq m2, LogFollows(a, n, l, m)
  PROVE  LogFollows(a2, n, l, m2)
<1>1. ASSUME NEW i \in 1..Len(l)
      PROVE  \E p \in 1..n :
               /\ a2[p] = l[i]
               /\ \A q \in 1..(p - 1) : a2[q] \in m2 \/ \E k \in 1..(i - 1) : l[k] = a2[q]
  <2>1. PICK p \in 1..n :
          /\ a[p] = l[i]
          /\ \A q \in 1..(p - 1) : a[q] \in m \/ \E k \in 1..(i - 1) : l[k] = a[q]
    BY DEF LogFollows
  <2>2. \A q \in 1..(p - 1) : q \in 1..n
    OBVIOUS
  <2> QED
    BY <2>1, <2>2
<1>2. \A p \in 1..n : a2[p] \in m2 \/ \E k \in 1..Len(l) : l[k] = a2[p]
  BY DEF LogFollows
<1> QED
  BY <1>1, <1>2 DEF LogFollows

LEMMA LogCleared ==
  ASSUME NEW a, NEW n \in Nat, NEW l \in Seq(Event), NEW m, LogFollows(a, n, l, m)
  PROVE  LogFollows(a, n, <<>>, m \cup Range(l))
<1>1. \A p \in 1..n : a[p] \in m \cup Range(l)
  BY SMTT(40) DEF LogFollows, Range
<1>2. IsInjective(<<>>) /\ Len(<<>>) = 0
  BY DEF IsInjective
<1> QED
  BY <1>1, <1>2 DEF LogFollows

LEMMA DocumentsGrow ==
  ASSUME NEW a \in Seq(Event), NEW n \in Nat, n < Len(a), NEW d, NEW d2, NEW m, NEW m2,
         DocumentsFollow(a, n, d, m),
         \/ d2 = d \cup {a[n + 1]} /\ m2 = m
         \/ d2 = d /\ m2 = m \cup {a[n + 1]}
  PROVE  DocumentsFollow(a, n + 1, d2, m2)
<1>1. \A p \in 1..(n + 1) : p = n + 1 \/ p \in 1..n
  OBVIOUS
<1>2. \A p \in 1..(n + 1) : a[p] \in d2 \cup m2
  BY <1>1 DEF DocumentsFollow
<1>3. \A x \in d2 : \E p \in 1..(n + 1) : a[p] = x
  <2> SUFFICES ASSUME NEW x \in d2
               PROVE  \E p \in 1..(n + 1) : a[p] = x
    OBVIOUS
  <2>1. CASE x \in d
    BY <2>1 DEF DocumentsFollow
  <2>2. CASE x = a[n + 1]
    BY <2>2
  <2> QED
    BY <2>1, <2>2
<1> QED
  BY <1>2, <1>3 DEF DocumentsFollow

LEMMA DocumentsStay ==
  ASSUME NEW a, NEW a2, NEW n \in Nat, \A p \in 1..n : a2[p] = a[p], NEW d, NEW m, NEW m2,
         m \subseteq m2, DocumentsFollow(a, n, d, m)
  PROVE  DocumentsFollow(a2, n, d, m2)
<1>1. \A p \in 1..n : a2[p] \in d \cup m2
  BY DEF DocumentsFollow
<1>2. \A x \in d : \E p \in 1..n : a2[p] = x
  BY DEF DocumentsFollow
<1> QED
  BY <1>1, <1>2 DEF DocumentsFollow

\* The first event not yet handled joins those that are missing.
LEMMA SessionMiss ==
  ASSUME NEW a \in Seq(Event), NEW b, NEW n \in Nat, n < Len(a), NEW k \in Nat,
         NEW l \in Seq(Event), NEW d, NEW m,
         LogFollows(a, n, l, m), DocumentsFollow(b, k, d, m)
  PROVE  LogFollows(a, n + 1, l, m \cup {a[n + 1]}) /\ DocumentsFollow(b, k, d, m \cup {a[n + 1]})
<1>1. PICK m2 : m2 = m \cup {a[n + 1]}
  OBVIOUS
<1>2. LogFollows(a, n + 1, l, m2)
  BY <1>1, LogMisses
<1>3. DocumentsFollow(b, k, d, m2)
  <2>1. m \subseteq m2 /\ \A p \in 1..k : b[p] = b[p]
    BY <1>1
  <2> QED
    BY <2>1, DocumentsStay, Zenon
<1> QED
  BY <1>1, <1>2, <1>3

-----------------------------------------------------------------------------
\* One hook

LEMMA SomeHook == AsyncHook = {1, 2} /\ 1 \in AsyncHook /\ 2 \in AsyncHook
  BY DEF AsyncHook

LEMMA TwoHooks == Cardinality(AsyncHook) = 2
<1>1. \A a, b \in Int : Cardinality(a..b) = IF a > b THEN 0 ELSE b - a + 1
  BY FS_Interval
<1>2. 1 \in Int /\ 2 \in Int
  OBVIOUS
<1>3. Cardinality(1..2) = IF 1 > 2 THEN 0 ELSE 2 - 1 + 1
  BY <1>1, <1>2, Zenon
<1> QED
  BY <1>3 DEF AsyncHook

LEMMA JobFacts ==
  /\ Nobody \in Job /\ \A e \in Event : <<e>> \in Job /\ <<e>> # Nobody
  /\ \A j \in Job : j # Nobody => j[1] \in Event /\ j = <<j[1]>>
  BY DEF Job, Nobody

LEMMA HandledNat ==
  ASSUME HooksTypeOK, NEW h \in AsyncHook, ChannelInOrder(h)
  PROVE  /\ Handled(h) \in Nat /\ chan[h] \in Seq(Event) /\ accepted[h] \in Seq(Event)
         /\ Handled(h) <= Len(accepted[h]) /\ IsInjective(accepted[h])
  BY DEF HooksTypeOK, ChannelInOrder, Handled

LEMMA ChannelKept ==
  ASSUME HooksTypeOK, NEW h \in AsyncHook, ChannelInOrder(h),
         chan'[h] = chan[h], accepted'[h] = accepted[h], working'[h] = working[h],
         nextHook' \in [Event -> Nat], \A e \in Event : nextHook'[e] >= nextHook[e]
  PROVE  ChannelInOrder(h)' /\ Handled(h)' = Handled(h)
<1>1. Handled(h)' = Handled(h)
  BY DEF Handled
<1>2. \A p \in 1..Len(accepted[h]) : nextHook'[accepted[h][p]] > h
  <2> SUFFICES ASSUME NEW p \in 1..Len(accepted[h])
               PROVE  nextHook'[accepted[h][p]] > h
    OBVIOUS
  <2>1. accepted[h][p] \in Event /\ h \in Int
    BY DEF HooksTypeOK, AsyncHook
  <2>2. nextHook[accepted[h][p]] > h /\ nextHook[accepted[h][p]] \in Nat
    BY <2>1 DEF ChannelInOrder, HooksTypeOK
  <2> QED
    BY <2>1, <2>2
<1> QED
  BY <1>1, <1>2 DEF ChannelInOrder

\* The channel takes event e.
LEMMA ChannelTakes ==
  ASSUME HooksTypeOK, NEW h \in AsyncHook, ChannelInOrder(h), NEW e \in Event, nextHook[e] = h,
         chan'[h] = Append(chan[h], e), accepted'[h] = Append(accepted[h], e),
         working'[h] = working[h], nextHook' = [nextHook EXCEPT ![e] = h + 1]
  PROVE  /\ ChannelInOrder(h)' /\ Handled(h)' = Handled(h)
         /\ \A p \in 1..Handled(h) : accepted'[h][p] = accepted[h][p]
<1>1. PICK a \in Seq(Event) : a = accepted[h]
  BY DEF HooksTypeOK
<1>2. PICK c \in Seq(Event) : c = chan[h]
  BY DEF HooksTypeOK
<1>3. PICK a2 : a2 = Append(a, e)
  OBVIOUS
<1>4. PICK c2 : c2 = Append(c, e)
  OBVIOUS
<1>5. /\ a2 \in Seq(Event) /\ c2 \in Seq(Event) /\ Len(a) \in Nat /\ Len(c) \in Nat
      /\ Len(a2) = Len(a) + 1 /\ a2[Len(a) + 1] = e /\ \A p \in 1..Len(a) : a2[p] = a[p]
      /\ Len(c2) = Len(c) + 1 /\ c2[Len(c) + 1] = e /\ \A p \in 1..Len(c) : c2[p] = c[p]
  BY <1>3, <1>4
<1>6. accepted'[h] = a2 /\ chan'[h] = c2
  BY <1>1, <1>2, <1>3, <1>4
<1>7. /\ Handled(h) = Len(a) - Len(c) - (IF working[h] = Nobody THEN 0 ELSE 1)
      /\ Handled(h)' = Len(a2) - Len(c2) - (IF working[h] = Nobody THEN 0 ELSE 1)
  BY <1>1, <1>2, <1>6 DEF Handled
<1>8. Handled(h)' = Handled(h) /\ Handled(h) \in Nat
  <2>1. Handled(h) \in Nat
    BY HandledNat
  <2> QED
    BY <1>5, <1>7, <2>1
<1>9. h \in Nat /\ nextHook \in [Event -> Nat]
  BY DEF AsyncHook, HooksTypeOK
<1>10. \A p \in 1..Len(a) : a[p] \in Event /\ nextHook[a[p]] > h /\ a[p] # e
  BY <1>1, <1>9 DEF ChannelInOrder
<1>11. IsInjective(a2)
  <2> SUFFICES ASSUME NEW i \in 1..(Len(a) + 1), NEW j \in 1..(Len(a) + 1), a2[i] = a2[j]
               PROVE  i = j
    BY <1>5 DEF IsInjective
  <2>1. CASE i \in 1..Len(a) /\ j \in 1..Len(a)
    <3>1. a[i] = a[j] /\ IsInjective(a) /\ DOMAIN a = 1..Len(a)
      BY <2>1, <1>1, <1>5 DEF ChannelInOrder
    <3> QED
      BY <2>1, <3>1 DEF IsInjective
  <2>2. CASE i = Len(a) + 1 /\ j \in 1..Len(a)
    BY <2>2, <1>5, <1>10
  <2>3. CASE j = Len(a) + 1 /\ i \in 1..Len(a)
    BY <2>3, <1>5, <1>10
  <2>4. CASE i = Len(a) + 1 /\ j = Len(a) + 1
    BY <2>4
  <2> QED
    BY <2>1, <2>2, <2>3, <2>4, <1>5
<1>12. \A p \in 1..Len(a2) : nextHook'[a2[p]] > h
  <2> SUFFICES ASSUME NEW p \in 1..Len(a2)
               PROVE  nextHook'[a2[p]] > h
    OBVIOUS
  <2>1. CASE p = Len(a) + 1
    BY <2>1, <1>5, <1>9
  <2>2. CASE p \in 1..Len(a)
    BY <2>2, <1>5, <1>9, <1>10
  <2> QED
    BY <2>1, <2>2, <1>5
<1>13. \A i \in 1..Len(c2) : c2[i] = a2[Len(a2) - Len(c2) + i]
  <2> SUFFICES ASSUME NEW i \in 1..Len(c2)
               PROVE  c2[i] = a2[Len(a2) - Len(c2) + i]
    OBVIOUS
  <2>1. CASE i = Len(c) + 1
    BY <2>1, <1>5
  <2>2. CASE i \in 1..Len(c)
    <3>1. c[i] = a[Len(a) - Len(c) + i]
      BY <2>2, <1>1, <1>2 DEF ChannelInOrder
    <3>2. Len(a) - Len(c) + i \in 1..Len(a) /\ Len(a2) - Len(c2) = Len(a) - Len(c)
      BY <2>2, <1>5, <1>8, <1>7
    <3> QED
      BY <2>2, <3>1, <3>2, <1>5
  <2> QED
    BY <2>1, <2>2, <1>5
<1>14. working[h] # Nobody => Handled(h) + 1 \in 1..Len(a)
  BY <1>8, <1>7
<1>15. working'[h] # Nobody => working'[h] = <<a2[Handled(h) + 1]>>
  BY <1>14, <1>1, <1>5 DEF ChannelInOrder
<1>16. ChannelInOrder(h)'
  BY <1>6, <1>8, <1>11, <1>12, <1>13, <1>15 DEF ChannelInOrder
<1>17. Handled(h) <= Len(a)
  BY <1>8, <1>7
<1>18. \A p \in 1..Handled(h) : p \in 1..Len(a)
  BY <1>8, <1>17
<1> QED
  BY <1>1, <1>5, <1>6, <1>8, <1>16, <1>18

\* The consumer takes the first event of the channel.
LEMMA ConsumerTakes ==
  ASSUME HooksTypeOK, NEW h \in AsyncHook, ChannelInOrder(h), working[h] = Nobody, chan[h] # <<>>,
         working'[h] = <<Head(chan[h])>>, chan'[h] = Tail(chan[h]), accepted'[h] = accepted[h],
         nextHook' = nextHook
  PROVE  ChannelInOrder(h)' /\ Handled(h)' = Handled(h)
<1>1. PICK a \in Seq(Event) : a = accepted[h]
  BY DEF HooksTypeOK
<1>2. PICK c \in Seq(Event) : c = chan[h] /\ c # <<>>
  BY DEF HooksTypeOK
<1>3. PICK t : t = Tail(c)
  OBVIOUS
<1>4. /\ t \in Seq(Event) /\ Len(t) = Len(c) - 1 /\ Len(c) \in Nat \ {0} /\ Len(a) \in Nat
      /\ \A i \in 1..Len(t) : t[i] = c[i + 1]
  BY <1>2, <1>3
<1>5. Head(c) = c[1] /\ c[1] \in Event
  BY <1>2
<1>6. working'[h] # Nobody /\ working'[h] = <<c[1]>> /\ chan'[h] = t /\ accepted'[h] = a
  BY <1>1, <1>2, <1>3, <1>5, JobFacts
<1>7. Handled(h)' = Handled(h) /\ Handled(h) = Len(a) - Len(c) /\ Handled(h) \in Nat
  <2>1. Handled(h) \in Nat
    BY HandledNat
  <2>2. Handled(h) = Len(a) - Len(c) /\ Handled(h)' = Len(a) - Len(t) - 1
    <3>1. Handled(h) = Len(a) - Len(c) - 0
      BY <1>1, <1>2 DEF Handled
    <3>2. Handled(h)' = Len(a) - Len(t) - 1
      BY <1>6 DEF Handled
    <3> QED
      BY <3>1, <3>2, <1>4
  <2> QED
    BY <2>1, <2>2, <1>4
<1>8. \A i \in 1..Len(c) : c[i] = a[Len(a) - Len(c) + i]
  BY <1>1, <1>2 DEF ChannelInOrder
<1>9. c[1] = a[Handled(h) + 1]
  BY <1>4, <1>7, <1>8
<1>10. \A i \in 1..Len(t) : t[i] = a[Len(a) - Len(t) + i]
  <2> SUFFICES ASSUME NEW i \in 1..Len(t)
               PROVE  t[i] = a[Len(a) - Len(t) + i]
    OBVIOUS
  <2>1. i + 1 \in 1..Len(c) /\ Len(a) - Len(c) + (i + 1) = Len(a) - Len(t) + i
    BY <1>4
  <2>2. c[i + 1] = a[Len(a) - Len(c) + (i + 1)]
    BY <2>1, <1>8
  <2> QED
    BY <2>1, <2>2, <1>4
<1> QED
  BY <1>1, <1>6, <1>7, <1>9, <1>10 DEF ChannelInOrder

\* The consumer is done with its event.
LEMMA ConsumerDone ==
  ASSUME HooksTypeOK, NEW h \in AsyncHook, ChannelInOrder(h), working[h] # Nobody,
         working'[h] = Nobody, chan'[h] = chan[h], accepted'[h] = accepted[h], nextHook' = nextHook
  PROVE  /\ ChannelInOrder(h)' /\ Handled(h)' = Handled(h) + 1 /\ Handled(h) < Len(accepted[h])
         /\ working[h][1] = accepted[h][Handled(h) + 1]
<1>1. /\ Handled(h) = Len(accepted[h]) - Len(chan[h]) - 1
      /\ Handled(h)' = Len(accepted[h]) - Len(chan[h])
  BY DEF Handled
<1>2. Len(accepted[h]) \in Nat /\ Len(chan[h]) \in Nat
  BY HandledNat
<1>3. Handled(h)' >= 0 /\ Handled(h)' = Handled(h) + 1 /\ Handled(h) < Len(accepted[h])
  <2>1. PICK n \in Nat, la \in Nat, lc \in Nat :
          n = Handled(h) /\ la = Len(accepted[h]) /\ lc = Len(chan[h])
    BY <1>2, HandledNat
  <2>2. n = la - lc - 1 /\ Handled(h)' = la - lc
    BY <1>1, <2>1
  <2>3. Handled(h)' = n + 1 /\ n < la
    BY <2>2
  <2> QED
    BY <2>1, <2>3
<1>4. working[h][1] = accepted[h][Handled(h) + 1]
  BY DEF ChannelInOrder
<1> QED
  BY <1>3, <1>4 DEF ChannelInOrder

-----------------------------------------------------------------------------
\* The steps

LEMMA HooksInitial == HooksInit => HooksIInv
<1> SUFFICES ASSUME HooksInit
             PROVE  HooksIInv
  OBVIOUS
<1>1. /\ chan \in [AsyncHook -> Seq(Event)] /\ accepted \in [AsyncHook -> Seq(Event)]
      /\ log \in Seq(Event) /\ working \in [AsyncHook -> Job]
  BY DEF HooksInit, Job
<1>2. HooksTypeOK
  BY <1>1, FS_EmptySet DEF HooksInit, HooksTypeOK
<1>3. \A h \in AsyncHook : Handled(h) = 0 /\ ChannelInOrder(h)
  <2> SUFFICES ASSUME NEW h \in AsyncHook
               PROVE  Handled(h) = 0 /\ ChannelInOrder(h)
    OBVIOUS
  <2>1. /\ chan[h] = <<>> /\ accepted[h] = <<>> /\ working[h] = Nobody
        /\ Len(<<>>) = 0 /\ IsInjective(<<>>)
    BY DEF HooksInit, IsInjective
  <2>2. Handled(h) = 0
    BY <2>1 DEF Handled
  <2> QED
    BY <2>1, <2>2 DEF ChannelInOrder
<1>4. StoresFollow
  BY <1>3, SomeHook DEF HooksInit, StoresFollow, LogFollows, DocumentsFollow, IsInjective
<1>5. Draining
  BY DEF HooksInit, Draining
<1>6. \A t : CountedOf(t) = 0
  <2>1. {} = counted
    BY DEF HooksInit
  <2> QED
    BY <2>1, FS_EmptySet DEF CountedOf
<1>7. MetricsExact
  BY <1>6 DEF HooksInit, MetricsExact
<1> QED
  BY <1>2, <1>3, <1>4, <1>5, <1>7 DEF HooksIInv

\* Where neither channels nor stores change.
LEMMA QuietStep ==
  ASSUME HooksIInv, UNCHANGED <<chan, accepted, working, log, documents, missed>>,
         nextHook' \in [Event -> Nat], \A e \in Event : nextHook'[e] >= nextHook[e]
  PROVE  (\A h \in AsyncHook : ChannelInOrder(h)') /\ StoresFollow'
<1>1. \A h \in AsyncHook : ChannelInOrder(h)' /\ Handled(h)' = Handled(h)
  BY ChannelKept DEF HooksIInv
<1>2. StoresFollow'
  BY <1>1, SomeHook DEF HooksIInv, StoresFollow
<1> QED
  BY <1>1, <1>2

LEMMA MetricsKept ==
  ASSUME HooksIInv, UNCHANGED <<etype, tokenCount, activeSeconds, counted>>,
         \A e \in Event : dispatch'[e] = "new" => dispatch[e] = "new"
  PROVE  MetricsExact'
<1>1. \A t : CountedOf(t)' = CountedOf(t)
  BY DEF CountedOf
<1>2. counted \subseteq Event
  BY DEF HooksIInv, HooksTypeOK
<1> QED
  BY <1>1, <1>2 DEF HooksIInv, MetricsExact

\* An event is counted once.
LEMMA CountsOnce ==
  ASSUME HooksIInv, NEW e \in Event, e \notin counted, counted' = counted \cup {e}, etype' = etype,
         NEW t
  PROVE  /\ IsFiniteSet(counted')
         /\ CountedOf(t)' = CountedOf(t) + (IF etype[e] = t THEN 1 ELSE 0)
<1> DEFINE S == {x \in counted : etype[x] = t}
<1>1. IsFiniteSet(counted)
  BY DEF HooksIInv, HooksTypeOK
<1>2. IsFiniteSet(S) /\ e \notin S
  BY <1>1, FS_Subset
<1>3. CountedOf(t) = Cardinality(S) /\ Cardinality(S) \in Nat
  BY <1>2, FS_CardinalityType DEF CountedOf
<1>4. CountedOf(t)' = Cardinality({x \in counted \cup {e} : etype[x] = t})
  BY DEF CountedOf
<1>5. CASE etype[e] = t
  <2>1. {x \in counted \cup {e} : etype[x] = t} = S \cup {e}
    BY <1>5
  <2>2. Cardinality(S \cup {e}) = Cardinality(S) + 1
    BY <1>2, FS_AddElement
  <2> QED
    BY <1>1, <1>3, <1>4, <1>5, <2>1, <2>2, FS_AddElement
<1>6. CASE etype[e] # t
  <2>1. {x \in counted \cup {e} : etype[x] = t} = S
    BY <1>6
  <2>2. CountedOf(t)' = CountedOf(t) /\ CountedOf(t) \in Nat
    BY <1>3, <1>4, <2>1
  <2>3. IsFiniteSet(counted')
    BY <1>1, FS_AddElement
  <2> QED
    BY <1>6, <2>2, <2>3
<1> QED
  BY <1>5, <1>6

LEMMA DispatchSyncStep ==
  ASSUME HooksIInv, NEW e \in Event, DispatchSync(e)
  PROVE  HooksIInv'
<1>1. PICK d \in {"async", "returned"} : dispatch' = [dispatch EXCEPT ![e] = d]
  BY DEF DispatchSync
<1>2. /\ dispatch[e] = "new" /\ seen' = [seen EXCEPT ![e] = registered]
      /\ UNCHANGED <<etype, nextHook, registered, hookStarts, stopping, stopDone, closed, chan,
                     consumers, working, log, documents, accepted, missed>>
  BY DEF DispatchSync, manager, hookStore
<1>3. \/ UNCHANGED <<tokenCount, activeSeconds, counted>>
      \/ /\ counted' = counted \cup {e}
         /\ tokenCount' = tokenCount + (IF etype[e] = "llm_call_end" THEN 1 ELSE 0)
         /\ activeSeconds' = activeSeconds + (IF etype[e] = "agent_end" THEN 1 ELSE 0)
  BY DEF DispatchSync, metricVars
<1>4. e \notin counted /\ dispatch \in [Event -> {"new", "async", "returned", "panicked"}]
  BY <1>2 DEF HooksIInv, MetricsExact, HooksTypeOK
<1>5. dispatch'[e] # "new" /\ \A f \in Event : dispatch'[f] = "new" => dispatch[f] = "new"
  BY <1>1, <1>4
<1>6. MetricsExact' /\ IsFiniteSet(counted')
  <2>1. CASE UNCHANGED <<tokenCount, activeSeconds, counted>>
    BY <2>1, <1>2, <1>5, MetricsKept DEF HooksIInv, HooksTypeOK
  <2>2. CASE counted' = counted \cup {e} /\ ~UNCHANGED <<tokenCount, activeSeconds, counted>>
    <3>1. \A t : /\ IsFiniteSet(counted')
                 /\ CountedOf(t)' = CountedOf(t) + (IF etype[e] = t THEN 1 ELSE 0)
      BY <2>2, <1>2, <1>4, CountsOnce
    <3>2. tokenCount' = CountedOf("llm_call_end")' /\ activeSeconds' = CountedOf("agent_end")'
      BY <2>2, <1>3, <3>1 DEF HooksIInv, MetricsExact
    <3>3. \A f \in counted' : dispatch'[f] # "new"
      BY <2>2, <1>5 DEF HooksIInv, MetricsExact, HooksTypeOK
    <3> QED
      BY <3>1, <3>2, <3>3 DEF MetricsExact
  <2> QED
    BY <2>1, <2>2, <1>3
<1>7. dispatch' \in [Event -> {"new", "async", "returned", "panicked"}] /\ seen' \in [Event -> 0..2]
  BY <1>1, <1>2 DEF HooksIInv, HooksTypeOK
<1>8. HooksTypeOK'
  BY <1>2, <1>3, <1>6, <1>7 DEF HooksIInv, HooksTypeOK
<1>9. (\A h \in AsyncHook : ChannelInOrder(h)') /\ StoresFollow'
  BY <1>2, QuietStep DEF HooksIInv, HooksTypeOK
<1>10. Draining'
  BY <1>2 DEF HooksIInv, Draining
<1> QED
  BY <1>6, <1>8, <1>9, <1>10 DEF HooksIInv

LEMMA DispatchAsyncStep ==
  ASSUME HooksIInv, NEW e \in Event, DispatchAsync(e)
  PROVE  HooksIInv'
<1> DEFINE h == nextHook[e]
<1>1. /\ dispatch[e] = "async"
      /\ UNCHANGED <<etype, seen, registered, hookStarts, stopping, stopDone, closed, consumers,
                     working, log, documents, tokenCount, activeSeconds, counted, missed>>
  BY DEF DispatchAsync, manager, hookStore, metricVars
<1>2. HooksTypeOK /\ h \in Nat /\ h >= 1 /\ seen[e] \in 0..2
  BY DEF HooksIInv, HooksTypeOK
<1>3. \A f \in Event : nextHook[f] \in Nat
  BY <1>2 DEF HooksTypeOK
<1>4. CASE /\ dispatch' \in {[dispatch EXCEPT ![e] = "returned"], [dispatch EXCEPT ![e] = "panicked"]}
           /\ UNCHANGED <<nextHook, chan, accepted>>
  <2>1. /\ dispatch' \in [Event -> {"new", "async", "returned", "panicked"}]
        /\ \A f \in Event : dispatch'[f] = "new" => dispatch[f] = "new"
    BY <1>2, <1>4 DEF HooksTypeOK
  <2>2. HooksTypeOK'
    BY <1>1, <1>4, <2>1 DEF HooksIInv, HooksTypeOK
  <2>3. MetricsExact'
    BY <1>1, <2>1, MetricsKept
  <2>4. (\A g \in AsyncHook : ChannelInOrder(g)') /\ StoresFollow'
    BY <1>1, <1>3, <1>4, <1>2, QuietStep DEF HooksTypeOK
  <2>5. Draining'
    BY <1>1, <1>4 DEF HooksIInv, Draining
  <2> QED
    BY <2>2, <2>3, <2>4, <2>5 DEF HooksIInv
<1>5. CASE h <= seen[e] /\ nextHook' = [nextHook EXCEPT ![e] = h + 1] /\ UNCHANGED dispatch
  <2>1. h \in AsyncHook
    BY <1>2, <1>5 DEF AsyncHook
  <2>2. /\ nextHook' \in [Event -> Nat] /\ nextHook'[e] = h + 1
        /\ \A f \in Event : nextHook'[f] >= nextHook[f] /\ nextHook'[f] >= 1
    BY <1>2, <1>3, <1>5 DEF HooksTypeOK
  <2>3. MetricsExact'
    BY <1>1, <1>5, MetricsKept
  <2>4. CASE UNCHANGED <<chan, accepted>>
    <3>1. HooksTypeOK'
      BY <1>1, <1>5, <2>2, <2>4 DEF HooksIInv, HooksTypeOK
    <3>2. (\A g \in AsyncHook : ChannelInOrder(g)') /\ StoresFollow'
      BY <1>1, <2>2, <2>4, QuietStep
    <3>3. Draining'
      BY <1>1, <2>4 DEF HooksIInv, Draining
    <3> QED
      BY <2>3, <3>1, <3>2, <3>3 DEF HooksIInv
  <2>5. CASE /\ h \notin closed /\ chan' = [chan EXCEPT ![h] = Append(@, e)]
             /\ accepted' = [accepted EXCEPT ![h] = Append(@, e)]
    <3>1. chan[h] \in Seq(Event) /\ accepted[h] \in Seq(Event)
      BY <1>2, <2>1 DEF HooksTypeOK
    <3>2. PICK c : c = Append(chan[h], e)
      OBVIOUS
    <3>3. PICK a : a = Append(accepted[h], e)
      OBVIOUS
    <3>4. c \in Seq(Event) /\ a \in Seq(Event)
      BY <3>1, <3>2, <3>3
    <3>5. chan' = [chan EXCEPT ![h] = c] /\ accepted' = [accepted EXCEPT ![h] = a]
      BY <2>5, <3>2, <3>3
    <3>6. /\ chan' \in [AsyncHook -> Seq(Event)] /\ accepted' \in [AsyncHook -> Seq(Event)]
          /\ chan'[h] = c /\ accepted'[h] = a
          /\ \A g \in AsyncHook : g # h => chan'[g] = chan[g] /\ accepted'[g] = accepted[g]
      BY <1>2, <2>1, <3>5, <3>4 DEF HooksTypeOK
    <3>7. HooksTypeOK'
      BY <1>1, <1>5, <2>2, <3>6 DEF HooksIInv, HooksTypeOK
    <3>8. ASSUME NEW g \in AsyncHook
          PROVE  /\ ChannelInOrder(g)' /\ Handled(g)' = Handled(g)
                 /\ \A p \in 1..Handled(g) : accepted'[g][p] = accepted[g][p]
      <4>1. ChannelInOrder(g) /\ working'[g] = working[g]
        BY <1>1 DEF HooksIInv
      <4>2. CASE g = h
        BY <4>1, <4>2, <1>2, <1>5, <3>2, <3>3, <3>6, ChannelTakes
      <4>3. CASE g # h
        BY <4>1, <4>3, <1>2, <2>2, <3>6, ChannelKept
      <4> QED
        BY <4>2, <4>3
    <3>9. StoresFollow'
      <4>1. Handled(1) \in Nat /\ Handled(2) \in Nat /\ log \in Seq(Event)
        BY <1>2, SomeHook, HandledNat DEF HooksIInv, HooksTypeOK
      <4>2. LogFollows(accepted[1], Handled(1), log, missed)
            /\ DocumentsFollow(accepted[2], Handled(2), documents, missed)
        BY DEF HooksIInv, StoresFollow
      <4>3. \A p \in 1..Handled(2) : accepted'[2][p] = accepted[2][p]
        BY <3>8, SomeHook
      <4>4. LogFollows(accepted'[1], Handled(1), log, missed)
        BY <4>1, <4>2, <3>8, SomeHook, LogStays
      <4>5. DocumentsFollow(accepted'[2], Handled(2), documents, missed)
        <5>1. PICK b, b2, d, m : b = accepted[2] /\ b2 = accepted'[2] /\ d = documents /\ m = missed
          OBVIOUS
        <5>2. PICK k \in Nat : k = Handled(2)
          BY <4>1
        <5>3. m \subseteq m /\ \A p \in 1..k : b2[p] = b[p]
          BY <4>3, <5>1, <5>2
        <5>4. DocumentsFollow(b, k, d, m)
          BY <4>2, <5>1, <5>2
        <5>5. DocumentsFollow(b2, k, d, m)
          BY <5>3, <5>4, DocumentsStay
        <5> QED
          BY <5>1, <5>2, <5>5
      <4> QED
        BY <1>1, <4>4, <4>5, <3>8, SomeHook DEF StoresFollow
    <3>10. Draining'
      <4>1. \A g \in AsyncHook : hookStarts[g] = 1 /\ consumers[g] = 0 => chan'[g] = <<>>
        BY <2>5, <3>6 DEF HooksIInv, Draining
      <4> QED
        BY <1>1, <4>1 DEF HooksIInv, Draining
    <3> QED
      BY <2>3, <3>7, <3>8, <3>9, <3>10 DEF HooksIInv
  <2> QED
    BY <1>5, <2>4, <2>5, <1>2 DEF DispatchAsync
<1> QED
  BY <1>2, <1>4, <1>5 DEF DispatchAsync

\* Steps that only move the managers' side.
LEMMA ManagerStep ==
  ASSUME HooksIInv,
         UNCHANGED <<etype, nextHook, seen, chan, working, log, documents, tokenCount, activeSeconds,
                     accepted, missed, counted>>,
         dispatch' \in [Event -> {"new", "async", "returned", "panicked"}],
         \A e \in Event : dispatch'[e] = "new" => dispatch[e] = "new",
         registered' \in 1..2, consumers' \in [AsyncHook -> {0, 1}],
         hookStarts' \in [AsyncHook -> {0, 1}], Draining'
  PROVE  HooksIInv'
<1>1. HooksTypeOK'
  BY DEF HooksIInv, HooksTypeOK
<1>2. MetricsExact'
  BY MetricsKept
<1>3. (\A h \in AsyncHook : ChannelInOrder(h)') /\ StoresFollow'
  BY QuietStep DEF HooksIInv, HooksTypeOK
<1> QED
  BY <1>1, <1>2, <1>3 DEF HooksIInv

LEMMA LifecycleStep ==
  ASSUME HooksIInv,
         (\E e \in Event : DispatchCancelled(e)) \/ RegisterAsync \/ CloseChannel
         \/ (\E h \in AsyncHook : WaitDrained(h) \/ EndConsumer(h))
  PROVE  HooksIInv'
<1>1. HooksTypeOK /\ Draining
  BY DEF HooksIInv
<1>2. CASE \E e \in Event : DispatchCancelled(e)
  <2>1. PICK e \in Event : DispatchCancelled(e)
    BY <1>2
  <2>2. /\ dispatch' \in [Event -> {"new", "async", "returned", "panicked"}]
        /\ \A f \in Event : dispatch'[f] = "new" => dispatch[f] = "new"
    BY <2>1, <1>1 DEF DispatchCancelled, HooksTypeOK
  <2>3. UNCHANGED <<etype, nextHook, seen, registered, hookStarts, stopping, stopDone, closed, chan,
                    consumers, working, log, documents, tokenCount, activeSeconds, counted, accepted,
                    missed>>
    BY <2>1 DEF DispatchCancelled, manager, hookStore, metricVars
  <2>4. Draining'
    BY <1>1, <2>3 DEF Draining
  <2> QED
    BY <1>1, <2>2, <2>3, <2>4, ManagerStep DEF HooksTypeOK
<1>3. CASE RegisterAsync
  <2>1. /\ registered < 2 /\ registered' = registered + 1
        /\ UNCHANGED <<etype, dispatch, nextHook, seen, hookStarts, stopping, stopDone, closed, chan,
                       consumers, working, log, documents, tokenCount, activeSeconds, counted,
                       accepted, missed>>
    BY <1>3, TwoHooks DEF RegisterAsync, hookStore, metricVars
  <2>2. Draining'
    BY <1>1, <2>1 DEF Draining
  <2>3. registered' \in 1..2
    BY <1>1, <2>1 DEF HooksTypeOK
  <2> QED
    BY <1>1, <2>1, <2>2, <2>3, ManagerStep DEF HooksTypeOK
<1>4. CASE CloseChannel
  <2>1. /\ closed \subseteq closed' /\ (stopping' = 1 \/ (stopping \in AsyncHook /\ stopping' = stopping + 1))
        /\ UNCHANGED <<etype, dispatch, nextHook, registered, seen, hookStarts, stopDone, chan,
                       consumers, working, log, documents, tokenCount, activeSeconds, counted,
                       accepted, missed>>
    BY <1>4 DEF CloseChannel, hookStore, metricVars
  <2>2. stopping' # 0
    BY <2>1 DEF AsyncHook
  <2>3. Draining'
    BY <1>1, <2>1, <2>2 DEF Draining
  <2> QED
    BY <1>1, <2>1, <2>3, ManagerStep DEF HooksTypeOK
<1>5. CASE \E h \in AsyncHook : WaitDrained(h)
  <2>1. PICK h \in AsyncHook : WaitDrained(h)
    BY <1>5
  <2>2. /\ stopping = h /\ consumers[h] = 0 /\ stopDone' = stopDone \cup {h}
        /\ UNCHANGED <<etype, dispatch, nextHook, registered, seen, hookStarts, stopping, closed,
                       chan, consumers, working, log, documents, tokenCount, activeSeconds, counted,
                       accepted, missed>>
    BY <2>1 DEF WaitDrained, hookStore, metricVars
  <2>3. h # 0
    BY DEF AsyncHook
  <2>4. Draining'
    BY <1>1, <2>2, <2>3 DEF Draining
  <2> QED
    BY <1>1, <2>2, <2>4, ManagerStep DEF HooksTypeOK
<1>6. CASE \E h \in AsyncHook : EndConsumer(h)
  <2>1. PICK h \in AsyncHook : EndConsumer(h)
    BY <1>6
  <2>2. /\ consumers[h] > 0 /\ working[h] = Nobody /\ chan[h] = <<>> /\ h \in closed
        /\ consumers' = [consumers EXCEPT ![h] = @ - 1]
        /\ UNCHANGED <<etype, dispatch, nextHook, seen, registered, hookStarts, stopping, stopDone,
                       closed, chan, working, log, documents, tokenCount, activeSeconds, counted,
                       accepted, missed>>
    BY <2>1 DEF EndConsumer, manager, hookStore, metricVars
  <2>3. consumers[h] = 1 /\ consumers \in [AsyncHook -> {0, 1}]
    BY <1>1, <2>2 DEF HooksTypeOK
  <2>4. consumers' = [consumers EXCEPT ![h] = 0]
    BY <2>2, <2>3
  <2>5. consumers' \in [AsyncHook -> {0, 1}]
    BY <2>3, <2>4
  <2>6. Draining'
    BY <1>1, <2>2, <2>3, <2>4 DEF Draining
  <2> QED
    BY <1>1, <2>2, <2>5, <2>6, ManagerStep DEF HooksTypeOK
<1> QED
  BY <1>2, <1>3, <1>4, <1>5, <1>6

LEMMA StartStep ==
  ASSUME HooksIInv, StartManager
  PROVE  HooksIInv'
<1>1. HooksTypeOK /\ Draining
  BY DEF HooksIInv
<1>2. /\ stopping = 0 /\ consumers' = hookStarts'
      /\ UNCHANGED <<etype, dispatch, nextHook, registered, seen, stopping, stopDone, chan, working,
                     log, documents, tokenCount, activeSeconds, counted, accepted, missed>>
  BY DEF StartManager, hookStore, metricVars
<1>3. hookStarts' \in [AsyncHook -> {0, 1}]
  <2>1. CASE hookStarts' = [h \in AsyncHook |-> IF h <= registered THEN 1 ELSE 0]
    BY <2>1
  <2>2. CASE \E bad \in 1..registered : hookStarts' = [h \in AsyncHook |-> IF h < bad THEN 1 ELSE 0]
    BY <2>2
  <2> QED
    BY <2>1, <2>2 DEF StartManager
<1>4. stopDone = {} /\ \A h \in AsyncHook : working[h] = Nobody
  BY <1>1, <1>2 DEF Draining, StartManager
<1>5. Draining'
  BY <1>2, <1>3, <1>4 DEF Draining
<1> QED
  BY <1>1, <1>2, <1>3, <1>5, ManagerStep DEF HooksTypeOK

\* The other hook's channel and its store are not concerned by what a consumer does.
LEMMA TakeStep ==
  ASSUME HooksIInv, NEW h \in AsyncHook, Take(h)
  PROVE  HooksIInv'
<1>1. HooksTypeOK /\ Draining /\ StoresFollow /\ \A g \in AsyncHook : ChannelInOrder(g)
  BY DEF HooksIInv
<1>2. /\ consumers[h] > 0 /\ working[h] = Nobody /\ chan[h] # <<>>
      /\ working' = [working EXCEPT ![h] = <<Head(chan[h])>>]
      /\ chan' = [chan EXCEPT ![h] = Tail(@)]
      /\ UNCHANGED <<etype, dispatch, nextHook, seen, registered, hookStarts, stopping, stopDone,
                     closed, consumers, log, documents, tokenCount, activeSeconds, counted, accepted,
                     missed>>
  BY DEF Take, manager, hookStore, metricVars
<1>3. chan[h] \in Seq(Event) /\ chan \in [AsyncHook -> Seq(Event)]
  BY <1>1 DEF HooksTypeOK
<1>4. Head(chan[h]) \in Event /\ Tail(chan[h]) \in Seq(Event)
  BY <1>2, <1>3
<1>5. <<Head(chan[h])>> \in Job /\ <<Head(chan[h])>> # Nobody
  BY <1>4, JobFacts
<1>6. /\ working' \in [AsyncHook -> Job] /\ working'[h] = <<Head(chan[h])>>
      /\ chan' \in [AsyncHook -> Seq(Event)] /\ chan'[h] = Tail(chan[h])
      /\ \A g \in AsyncHook : g # h => working'[g] = working[g] /\ chan'[g] = chan[g]
  BY <1>1, <1>2, <1>4, <1>5 DEF HooksTypeOK
<1>7. HooksTypeOK'
  BY <1>1, <1>2, <1>6 DEF HooksTypeOK
<1>8. ASSUME NEW g \in AsyncHook
      PROVE  ChannelInOrder(g)' /\ Handled(g)' = Handled(g)
  <2>1. CASE g = h
    BY <2>1, <1>1, <1>2, <1>6, ConsumerTakes
  <2>2. CASE g # h
    <3>1. nextHook' \in [Event -> Nat] /\ \A e \in Event : nextHook'[e] >= nextHook[e]
      BY <1>1, <1>2 DEF HooksTypeOK
    <3> QED
      BY <2>2, <3>1, <1>1, <1>2, <1>6, ChannelKept
  <2> QED
    BY <2>1, <2>2
<1>9. StoresFollow'
  BY <1>1, <1>2, <1>8, SomeHook DEF StoresFollow
<1>10. Draining'
  BY <1>1, <1>2, <1>6 DEF Draining
<1>11. MetricsExact'
  BY <1>2, MetricsKept
<1> QED
  BY <1>7, <1>8, <1>9, <1>10, <1>11 DEF HooksIInv

\* What is left to show of a consumer that is done with its event.
LEMMA DoneStep ==
  ASSUME HooksIInv, NEW h \in AsyncHook, working[h] # Nobody,
         working' = [working EXCEPT ![h] = Nobody],
         UNCHANGED <<etype, dispatch, nextHook, seen, registered, hookStarts, stopping, stopDone,
                     closed, chan, consumers, tokenCount, activeSeconds, counted, accepted>>,
         log' \in Seq(Event),
         ASSUME Handled(h)' = Handled(h) + 1, Handled(h) \in Nat, Handled(h) < Len(accepted[h]),
                accepted[h] \in Seq(Event), IsInjective(accepted[h]),
                working[h][1] = accepted[h][Handled(h) + 1],
                \A g \in AsyncHook : g # h => Handled(g)' = Handled(g) /\ Handled(g) \in Nat
         PROVE  StoresFollow'
  PROVE  HooksIInv'
<1>1. HooksTypeOK /\ Draining /\ StoresFollow /\ \A g \in AsyncHook : ChannelInOrder(g)
  BY DEF HooksIInv
<1>2. /\ working' \in [AsyncHook -> Job] /\ working'[h] = Nobody
      /\ \A g \in AsyncHook : g # h => working'[g] = working[g]
  BY <1>1, JobFacts DEF HooksTypeOK
<1>3. HooksTypeOK'
  BY <1>1, <1>2 DEF HooksTypeOK
<1>4. /\ ChannelInOrder(h)' /\ Handled(h)' = Handled(h) + 1 /\ Handled(h) < Len(accepted[h])
      /\ working[h][1] = accepted[h][Handled(h) + 1]
  BY <1>1, <1>2, ConsumerDone
<1>5. /\ Handled(h) \in Nat /\ accepted[h] \in Seq(Event) /\ IsInjective(accepted[h])
  BY <1>1, HandledNat
<1>6. \A g \in AsyncHook : g # h => ChannelInOrder(g)' /\ Handled(g)' = Handled(g)
  <2>1. nextHook' \in [Event -> Nat] /\ \A e \in Event : nextHook'[e] >= nextHook[e]
    BY <1>1 DEF HooksTypeOK
  <2> QED
    BY <2>1, <1>1, <1>2, ChannelKept
<1>7. \A g \in AsyncHook : Handled(g) \in Nat
  BY <1>1, HandledNat
<1>8. StoresFollow'
  BY <1>4, <1>5, <1>6, <1>7
<1>9. Draining'
  BY <1>1, <1>2 DEF Draining
<1>10. MetricsExact'
  BY MetricsKept
<1> QED
  BY <1>3, <1>4, <1>6, <1>8, <1>9, <1>10 DEF HooksIInv

LEMMA HandleAppendStep ==
  ASSUME HooksIInv, HandleAppend
  PROVE  HooksIInv'
<1>1. HooksTypeOK /\ Draining /\ StoresFollow /\ \A g \in AsyncHook : ChannelInOrder(g)
  BY DEF HooksIInv
<1>2. /\ working[1] # Nobody /\ documents' = documents
      /\ UNCHANGED <<etype, dispatch, nextHook, seen, registered, hookStarts, stopping, stopDone,
                     closed, chan, consumers, tokenCount, activeSeconds, counted, accepted>>
  BY DEF HandleAppend, Consuming, manager, metricVars
<1>3. 1 \in AsyncHook /\ 2 \in AsyncHook /\ working[1][1] \in Event /\ log \in Seq(Event)
  BY <1>1, <1>2, SomeHook, JobFacts DEF HooksTypeOK
<1>4. CASE UNCHANGED <<working, log, missed>>
  <2>1. HooksTypeOK' /\ Draining' /\ MetricsExact'
    BY <1>1, <1>2, <1>4, MetricsKept DEF HooksTypeOK, Draining
  <2>2. (\A h \in AsyncHook : ChannelInOrder(h)') /\ StoresFollow'
    BY <1>1, <1>2, <1>4, QuietStep DEF HooksTypeOK
  <2> QED
    BY <2>1, <2>2 DEF HooksIInv
<1>5. CASE log' = Append(log, working[1][1]) /\ Idle /\ missed' = missed
  <2>1. log' \in Seq(Event) /\ working' = [working EXCEPT ![1] = Nobody]
    BY <1>3, <1>5 DEF Idle
  <2>2. ASSUME Handled(1)' = Handled(1) + 1, Handled(1) \in Nat, Handled(1) < Len(accepted[1]),
               accepted[1] \in Seq(Event), IsInjective(accepted[1]),
               working[1][1] = accepted[1][Handled(1) + 1],
               \A g \in AsyncHook : g # 1 => Handled(g)' = Handled(g) /\ Handled(g) \in Nat
        PROVE  StoresFollow'
    <3>1. LogFollows(accepted[1], Handled(1) + 1, log', missed)
      BY <1>1, <1>3, <1>5, <2>2, LogGrows DEF StoresFollow
    <3>2. Handled(2)' = Handled(2)
      BY <1>3, <2>2
    <3> QED
      BY <1>1, <1>2, <1>5, <2>2, <3>1, <3>2 DEF StoresFollow
  <2> QED
    BY <1>2, <1>3, <2>1, <2>2, DoneStep
<1>6. CASE log' = log /\ Idle /\ missed' = missed \cup {working[1][1]}
  <2>1. working' = [working EXCEPT ![1] = Nobody]
    BY <1>6 DEF Idle
  <2>2. ASSUME Handled(1)' = Handled(1) + 1, Handled(1) \in Nat, Handled(1) < Len(accepted[1]),
               accepted[1] \in Seq(Event), IsInjective(accepted[1]),
               working[1][1] = accepted[1][Handled(1) + 1],
               \A g \in AsyncHook : g # 1 => Handled(g)' = Handled(g) /\ Handled(g) \in Nat
        PROVE  StoresFollow'
    BY <1>1, <1>2, <1>3, <1>6, <2>2, SessionMiss DEF StoresFollow
  <2> QED
    BY <1>2, <1>3, <1>6, <2>1, <2>2, DoneStep
<1> QED
  BY <1>4, <1>5, <1>6 DEF HandleAppend

LEMMA HandleCreateStep ==
  ASSUME HooksIInv, HandleCreate
  PROVE  HooksIInv'
<1>1. HooksTypeOK /\ Draining /\ StoresFollow /\ \A g \in AsyncHook : ChannelInOrder(g)
  BY DEF HooksIInv
<1>2. /\ working[1] # Nobody /\ documents' = documents /\ log' = log
      /\ UNCHANGED <<etype, dispatch, nextHook, seen, registered, hookStarts, stopping, stopDone,
                     closed, chan, consumers, tokenCount, activeSeconds, counted, accepted>>
  BY DEF HandleCreate, Consuming, manager, metricVars
<1>3. 1 \in AsyncHook /\ 2 \in AsyncHook /\ working[1][1] \in Event /\ log \in Seq(Event)
  BY <1>1, <1>2, SomeHook, JobFacts DEF HooksTypeOK
<1>4. CASE UNCHANGED <<working, missed>>
  <2>1. HooksTypeOK' /\ Draining' /\ MetricsExact'
    BY <1>1, <1>2, <1>4, MetricsKept DEF HooksTypeOK, Draining
  <2>2. (\A h \in AsyncHook : ChannelInOrder(h)') /\ StoresFollow'
    BY <1>1, <1>2, <1>4, QuietStep DEF HooksTypeOK
  <2> QED
    BY <2>1, <2>2 DEF HooksIInv
<1>5. CASE Idle /\ missed' = missed \cup {working[1][1]}
  <2>1. working' = [working EXCEPT ![1] = Nobody]
    BY <1>5 DEF Idle
  <2>2. ASSUME Handled(1)' = Handled(1) + 1, Handled(1) \in Nat, Handled(1) < Len(accepted[1]),
               accepted[1] \in Seq(Event), IsInjective(accepted[1]),
               working[1][1] = accepted[1][Handled(1) + 1],
               \A g \in AsyncHook : g # 1 => Handled(g)' = Handled(g) /\ Handled(g) \in Nat
        PROVE  StoresFollow'
    BY <1>1, <1>2, <1>3, <1>5, <2>2, SessionMiss DEF StoresFollow
  <2> QED
    BY <1>2, <1>3, <1>5, <2>1, <2>2, DoneStep
<1> QED
  BY <1>4, <1>5 DEF HandleCreate

LEMMA HandleArchiveStep ==
  ASSUME HooksIInv, HandleArchive
  PROVE  HooksIInv'
<1>1. HooksTypeOK /\ StoresFollow
  BY DEF HooksIInv
<1>2. /\ working[2] # Nobody /\ log' = log /\ working' = [working EXCEPT ![2] = Nobody]
      /\ UNCHANGED <<etype, dispatch, nextHook, seen, registered, hookStarts, stopping, stopDone,
                     closed, chan, consumers, tokenCount, activeSeconds, counted, accepted>>
  BY DEF HandleArchive, manager, metricVars
<1>3. \/ documents' = documents \cup {working[2][1]} /\ missed' = missed
      \/ documents' = documents /\ missed' = missed \cup {working[2][1]}
  BY DEF HandleArchive
<1>4. 1 \in AsyncHook /\ 2 \in AsyncHook /\ log \in Seq(Event)
  BY <1>1, SomeHook DEF HooksTypeOK
<1>5. ASSUME Handled(2)' = Handled(2) + 1, Handled(2) \in Nat, Handled(2) < Len(accepted[2]),
             accepted[2] \in Seq(Event), IsInjective(accepted[2]),
             working[2][1] = accepted[2][Handled(2) + 1],
             \A g \in AsyncHook : g # 2 => Handled(g)' = Handled(g) /\ Handled(g) \in Nat
      PROVE  StoresFollow'
  <2>1. DocumentsFollow(accepted[2], Handled(2) + 1, documents', missed')
    BY <1>1, <1>3, <1>5, DocumentsGrow DEF StoresFollow
  <2>2. missed \subseteq missed' /\ Handled(1)' = Handled(1) /\ Handled(1) \in Nat
    BY <1>3, <1>4, <1>5
  <2>3. LogFollows(accepted[1], Handled(1), log, missed')
    BY <1>1, <1>4, <2>2, LogStays DEF StoresFollow
  <2> QED
    BY <1>2, <1>5, <2>1, <2>2, <2>3 DEF StoresFollow
<1> QED
  BY <1>2, <1>4, <1>5, DoneStep

LEMMA HostDeletesStep ==
  ASSUME HooksIInv, HostDeletes
  PROVE  HooksIInv'
<1>1. HooksTypeOK /\ Draining /\ StoresFollow /\ \A g \in AsyncHook : ChannelInOrder(g)
  BY DEF HooksIInv
<1>2. /\ log' = <<>> /\ missed' = missed \cup Range(log)
      /\ UNCHANGED <<etype, dispatch, nextHook, seen, registered, hookStarts, stopping, stopDone,
                     closed, chan, consumers, working, documents, tokenCount, activeSeconds, counted,
                     accepted>>
  BY DEF HostDeletes, manager, metricVars
<1>3. log \in Seq(Event) /\ <<>> \in Seq(Event)
  BY <1>1 DEF HooksTypeOK
<1>4. HooksTypeOK' /\ Draining' /\ MetricsExact'
  BY <1>1, <1>2, <1>3, MetricsKept DEF HooksTypeOK, Draining
<1>5. ASSUME NEW h \in AsyncHook
      PROVE  ChannelInOrder(h)' /\ Handled(h)' = Handled(h) /\ Handled(h) \in Nat
  <2>1. nextHook' \in [Event -> Nat] /\ \A e \in Event : nextHook'[e] >= nextHook[e]
    BY <1>1, <1>2 DEF HooksTypeOK
  <2> QED
    BY <1>1, <1>2, <2>1, ChannelKept, HandledNat
<1>6. LogFollows(accepted[1], Handled(1), log', missed')
  BY <1>1, <1>2, <1>3, <1>5, SomeHook, LogCleared DEF StoresFollow
<1>7. DocumentsFollow(accepted[2], Handled(2), documents, missed')
  <2>1. PICK b, d, m, m2 : b = accepted[2] /\ d = documents /\ m = missed /\ m2 = missed'
    OBVIOUS
  <2>2. PICK k \in Nat : k = Handled(2)
    BY <1>5, SomeHook
  <2>3. m \subseteq m2 /\ \A p \in 1..k : b[p] = b[p]
    BY <1>2, <2>1
  <2>4. DocumentsFollow(b, k, d, m)
    BY <1>1, <2>1, <2>2 DEF StoresFollow
  <2>5. DocumentsFollow(b, k, d, m2)
    BY <2>3, <2>4, DocumentsStay
  <2> QED
    BY <2>1, <2>2, <2>5
<1>8. StoresFollow'
  BY <1>2, <1>5, <1>6, <1>7, SomeHook DEF StoresFollow
<1> QED
  BY <1>4, <1>5, <1>8 DEF HooksIInv

LEMMA HooksInductive ==
  ASSUME HooksIInv, [HooksStep]_hookVars
  PROVE  HooksIInv'
<1>1. CASE \E e \in Event : DispatchSync(e) \/ DispatchAsync(e)
  BY <1>1, DispatchSyncStep, DispatchAsyncStep
<1>2. CASE \/ \E e \in Event : DispatchCancelled(e)
           \/ RegisterAsync \/ CloseChannel
           \/ \E h \in AsyncHook : WaitDrained(h) \/ EndConsumer(h)
  BY <1>2, LifecycleStep
<1>3. CASE StartManager
  BY <1>3, StartStep
<1>4. CASE \E h \in AsyncHook : Take(h)
  BY <1>4, TakeStep
<1>5. CASE HandleAppend \/ HandleCreate \/ HandleArchive \/ HostDeletes
  BY <1>5, HandleAppendStep, HandleCreateStep, HandleArchiveStep, HostDeletesStep
<1>6. CASE UNCHANGED hookVars
  <2>1. UNCHANGED <<etype, dispatch, nextHook, registered, seen, chan, closed, consumers, working,
                    hookStarts, stopping, stopDone, log, documents, tokenCount, activeSeconds,
                    accepted, missed, counted>>
    BY <1>6 DEF hookVars
  <2>2. Draining'
    BY <2>1 DEF HooksIInv, Draining
  <2> QED
    BY <2>1, <2>2, ManagerStep DEF HooksIInv, HooksTypeOK
<1> QED
  BY <1>1, <1>2, <1>3, <1>4, <1>5, <1>6 DEF HooksStep

LEMMA HooksKeepEvents ==
  ASSUME HooksIInv
  PROVE  AcceptedHandled
<1>1. HooksTypeOK /\ Draining /\ MetricsExact /\ StoresFollow /\ \A h \in AsyncHook : ChannelInOrder(h)
  BY DEF HooksIInv
<1>2. PICK a \in Seq(Event) : a = accepted[1]
  BY <1>1, SomeHook DEF HooksTypeOK
<1>3. PICK b \in Seq(Event) : b = accepted[2]
  BY <1>1, SomeHook DEF HooksTypeOK
<1>4. PICK n \in Nat : n = Handled(1) /\ n <= Len(a)
  BY <1>1, <1>2, SomeHook, HandledNat
<1>5. PICK k \in Nat : k = Handled(2) /\ k <= Len(b)
  BY <1>1, <1>3, SomeHook, HandledNat
<1>6. LogFollows(a, n, log, missed) /\ DocumentsFollow(b, k, documents, missed)
  BY <1>1, <1>2, <1>3, <1>4, <1>5 DEF StoresFollow
<1>7. IsInjective(log) /\ log \in Seq(Event)
  BY <1>1, <1>6 DEF LogFollows, HooksTypeOK
<1>8. \A i \in 1..Len(log) : \E p \in 1..Len(a) :
        /\ a[p] = log[i]
        /\ \A q \in 1..(p - 1) : a[q] \in missed \/ \E j \in 1..(i - 1) : log[j] = a[q]
  <2>1. \A p \in 1..n : p \in 1..Len(a)
    BY <1>4
  <2> QED
    BY <1>6, <2>1 DEF LogFollows
<1>9. documents \subseteq Range(b)
  <2>1. \A p \in 1..k : p \in DOMAIN b
    BY <1>5
  <2> QED
    BY <1>6, <2>1 DEF DocumentsFollow, Range
<1>10. ASSUME NEW h \in stopDone, hookStarts[h] = 1
       PROVE  /\ chan[h] = <<>> /\ working[h] = Nobody
              /\ Range(accepted[h]) \ missed = (IF h = 1 THEN Range(log) ELSE documents) \ missed
  <2>1. h \in AsyncHook /\ chan[h] = <<>> /\ working[h] = Nobody
    BY <1>1, <1>10 DEF Draining
  <2>2. Handled(h) = Len(accepted[h])
    <3>1. Len(<<>>) = 0 /\ Len(accepted[h]) \in Nat
      BY <1>1, <2>1, HandledNat
    <3> QED
      BY <2>1, <3>1 DEF Handled
  <2>3. CASE h = 1
    <3>1. n = Len(a) /\ DOMAIN a = 1..Len(a)
      BY <1>2, <1>4, <2>2, <2>3
    <3>2. \A x \in Range(a) \ missed : x \in Range(log)
      <4>1. \A p \in 1..n : a[p] \in missed \/ \E i \in 1..Len(log) : log[i] = a[p]
        BY <1>6 DEF LogFollows
      <4>2. DOMAIN log = 1..Len(log)
        BY <1>7
      <4>3. TAKE x \in Range(a) \ missed
      <4>4. PICK p \in 1..n : a[p] = x
        BY <3>1 DEF Range
      <4> QED
        BY <4>1, <4>2, <4>4 DEF Range
    <3>3. \A x \in Range(log) : x \in Range(a)
      <4>1. ASSUME NEW i \in 1..Len(log)
            PROVE  \E p \in 1..Len(a) : a[p] = log[i]
        BY <1>8
      <4>2. DOMAIN log = 1..Len(log)
        BY <1>7
      <4> QED
        BY <4>1, <4>2, <3>1 DEF Range
    <3> QED
      BY <1>2, <2>1, <2>3, <3>2, <3>3
  <2>4. CASE h # 1
    <3>1. h = 2
      BY <2>1, <2>4, SomeHook
    <3>2. k = Len(b) /\ DOMAIN b = 1..Len(b)
      BY <1>3, <1>5, <2>2, <3>1
    <3>3. \A x \in Range(b) \ missed : x \in documents
      BY <1>6, <3>2 DEF DocumentsFollow, Range
    <3> QED
      BY <1>3, <1>9, <2>1, <2>4, <3>1, <3>3
  <2> QED
    BY <2>1, <2>3, <2>4
<1> QED
  BY <1>1, <1>2, <1>3, <1>7, <1>8, <1>9, <1>10 DEF AcceptedHandled, MetricsExact

THEOREM AcceptedEventsHandled == HooksSpec => []AcceptedHandled
<1>1. HooksSpec => []HooksIInv
  BY HooksInitial, HooksInductive, PTL DEF HooksSpec
<1> QED
  BY <1>1, HooksKeepEvents, PTL

-----------------------------------------------------------------------------
\* The files of a session.

Mark == FileCall \cup {"before"} \cup Nat

FileCallRecord ==
  [op : Operation \cup {"none"},
   at : {"unused", "wait", "locked", "write", "rest", "promoting", "ok", "error", "dead"},
   gen : Nat, file : File \cup {"none", "events", "checkpoint", "report"}, new : SUBSET Mark]

EventLine == [es : Seq(FileCall), bad : BOOLEAN, open : BOOLEAN]

\* A write is to a file of the call's own store.
WriteFits(r) ==
  /\ r.at = "write" =>
       /\ r.file \in Rewritten => StoreOf(r.op) = OwnerOf(r.file)
       /\ r.file \in Note \cup Scratch => StoreOf(r.op) = "workspace"
       /\ r.op \notin {"AppendEvent", "Save", "SaveReport"} => r.file \in File
       /\ r.op = "Save" => \E n \in Nat : r.new = {n}
  /\ r.at \in {"write", "rest"} /\ r.op = "SaveReport" =>
       r.new \subseteq Nat /\ IsFiniteSet(r.new) /\ r.new # {}

FilesTypeOK ==
  /\ focus \subseteq Operation
  /\ content \in [File -> SUBSET Mark] /\ kept \in [Rewritten -> SUBSET Mark]
  /\ cps \subseteq [seq : Nat, by : FileCall] /\ IsFiniteSet({p.seq : p \in cps}) /\ saved \in Seq(Nat)
  /\ reports \subseteq Nat /\ IsFiniteSet(reports)
  /\ events \in Seq(EventLine) /\ logged \in Seq(FileCall) /\ cuts \in Nat
  /\ storeMutex \in [Store -> Nat]
  /\ call \in [FileCall -> FileCallRecord]
  /\ \A c \in FileCall : WriteFits(call[c])

\* Where a call has its mutex.
UnderMutex == {"locked", "write", "rest"}

\* A mutex is held for one call; a store has only one as long as it has not
\* forgotten it, and the sink of the build reports never does.
MutexesExclude ==
  /\ \A c \in FileCall : call[c].at \in UnderMutex => MyLock(c) \in held
  /\ \A c, d \in FileCall :
       call[c].at \in UnderMutex /\ call[d].at \in UnderMutex /\ MyLock(c) = MyLock(d) => c = d
  /\ \A s \in Store : s \notin forgotten => storeMutex[s] = 0
  /\ "reports" \notin forgotten
  /\ \A c \in FileCall : call[c].gen <= storeMutex[StoreOf(call[c].op)]

\* What a write under way has read still holds when it comes to write.
PendingSafe(r) ==
  /\ r.at = "write" /\ r.file \in Rewritten /\ OwnerOf(r.file) \notin forgotten =>
       kept[r.file] \subseteq r.new
  /\ r.at = "write" /\ r.op = "Save" /\ "checkpoints" \notin forgotten =>
       \A p \in cps, n \in r.new : p.seq < n
  /\ r.at = "write" /\ r.new # {} /\ "workspace" \notin forgotten =>
       \A kind \in {Note, Scratch} :
         r.file \in kind => content[r.file] # {} \/ Count(kind) < MaxNotes
  /\ r.at \in {"write", "rest"} /\ r.op = "SaveReport" => reports \subseteq r.new

WritesPending == \A c \in FileCall : PendingSafe(call[c])

KeptSafe == \A f \in Rewritten : OwnerOf(f) \notin forgotten => kept[f] \subseteq content[f]

\* The checkpoint files are the saves acknowledged, the last one the highest.
CheckpointsSafe ==
  /\ \A p \in cps : \E i \in 1..Len(saved) : saved[i] = p.seq
  /\ \A i \in 1..Len(saved) : \E p \in cps : p.seq = saved[i]
  /\ "checkpoints" \notin forgotten =>
       Increasing(saved) /\ \A p, q \in cps : p.seq = q.seq => p = q

NotesSafe ==
  "workspace" \notin forgotten => \A kind \in {Note, Scratch} : Count(kind) <= MaxNotes

LateSaves ==
  {c \in FileCall : call[c].op = "SaveReport" /\ call[c].at \in {"rest", "error", "dead"}}

ReportsSafe == LateSaves = {} => Cardinality(reports) <= MaxReports

BadLines == {i \in DOMAIN events : events[i].bad}

\* One line per acknowledged event, in order, and maybe a last one without its
\* end; a call whose event is in the log is over.
LogSafe ==
  /\ Len(logged) <= Len(events) /\ Len(events) <= Len(logged) + 1
  /\ \A i \in 1..Len(logged) :
       events[i].es = <<logged[i]>> /\ ~events[i].open /\ call[logged[i]].at = "ok"
  /\ Len(events) = Len(logged) + 1 => events[Len(events)] = Line(<<>>, TRUE, TRUE)
  /\ \A i, j \in 1..Len(logged) : logged[i] = logged[j] => i = j
  /\ Cardinality(BadLines) <= cuts

StoresSafe == KeptSafe /\ CheckpointsSafe /\ NotesSafe /\ ReportsSafe /\ LogSafe

FilesIInv == FilesTypeOK /\ MutexesExclude /\ WritesPending /\ StoresSafe

-----------------------------------------------------------------------------
\* Finite sets of numbers

LEMMA LeastNumber ==
  ASSUME NEW S, S \subseteq Nat, S # {}
  PROVE  \E x \in S : \A y \in S : x <= y
<1>1. PICK x \in S : \A y \in S : ~(<<y, x>> \in OpToRel(<, Nat))
  BY NatLessThanWellFounded, WFMin
<1>2. \A y \in S : x <= y
  <2> SUFFICES ASSUME NEW y \in S
               PROVE  x <= y
    OBVIOUS
  <2>1. x \in Nat /\ y \in Nat
    OBVIOUS
  <2>2. ~(y < x)
    BY <1>1, <2>1 DEF OpToRel
  <2> QED
    BY <2>1, <2>2
<1> QED
  BY <1>2

\* By the least length of an unbounded sequence of numbers.
LEMMA SequenceBounded ==
  ASSUME NEW n \in Nat, NEW f \in [1..n -> Nat]
  PROVE  \E b \in Nat : \A i \in 1..n : f[i] <= b
<1> DEFINE T == {k \in Nat : \E g \in [1..k -> Nat] : \A b \in Nat : \E i \in 1..k : ~(g[i] <= b)}
<1> SUFFICES ASSUME T # {}
             PROVE  FALSE
  OBVIOUS
<1>1. T \subseteq Nat
  OBVIOUS
<1>2. PICK k \in T : \A j \in T : k <= j
  <2> HIDE DEF T
  <2> QED
    BY <1>1, LeastNumber
<1>3. PICK g \in [1..k -> Nat] : \A b \in Nat : \E i \in 1..k : ~(g[i] <= b)
  BY <1>2
<1>4. k \in Nat /\ k # 0
  <2>1. k \in Nat /\ 0 \in Nat
    BY <1>2
  <2>2. \E i \in 1..k : ~(g[i] <= 0)
    BY <1>3
  <2> QED
    BY <2>1, <2>2
<1>5. k - 1 \in Nat /\ k - 1 \notin T
  <2>1. k - 1 \in Nat /\ ~(k <= k - 1)
    BY <1>4
  <2> HIDE DEF T
  <2> QED
    BY <1>2, <2>1
<1>6. PICK h : h = [i \in 1..(k - 1) |-> g[i]]
  OBVIOUS
<1>7. PICK b \in Nat : \A i \in 1..(k - 1) : h[i] <= b
  <2>1. \A i \in 1..(k - 1) : i \in 1..k
    BY <1>4
  <2>2. h \in [1..(k - 1) -> Nat]
    BY <1>3, <1>6, <2>1
  <2> QED
    BY <1>5, <2>2
<1> HIDE DEF T
<1>8. \A i \in 1..k : g[i] \in Nat
  BY <1>3
<1>9. PICK m \in Nat : b <= m /\ g[k] <= m
  <2>1. g[k] \in Nat /\ b \in Nat
    BY <1>4, <1>8
  <2>2. b <= g[k] \/ g[k] <= b
    BY <2>1
  <2>3. b <= b /\ g[k] <= g[k]
    BY <2>1
  <2> QED
    BY <2>1, <2>2, <2>3
<1>10. \A i \in 1..k : g[i] <= m
  <2> SUFFICES ASSUME NEW i \in 1..k
               PROVE  g[i] <= m
    OBVIOUS
  <2>1. CASE i = k
    BY <2>1, <1>9
  <2>2. CASE i # k
    <3>1. i \in 1..(k - 1) /\ g[i] \in Nat
      BY <2>2, <1>4, <1>8
    <3>2. h[i] <= b /\ h[i] = g[i]
      BY <3>1, <1>6, <1>7
    <3>3. g[i] <= b /\ b <= m
      BY <3>2, <1>9
    <3> QED
      BY <3>1, <3>3
  <2> QED
    BY <2>1, <2>2
<1> QED
  BY <1>3, <1>10

LEMMA GreatestNumber ==
  ASSUME NEW S, S \subseteq Nat, IsFiniteSet(S), S # {}
  PROVE  Max(S) \in S /\ \A y \in S : Max(S) >= y
<1>1. PICK n \in Nat : ExistsBijection(1..n, S)
  BY FS_NatBijection
<1>2. PICK f : f \in [1..n -> Nat] /\ \A x \in S : \E i \in 1..n : f[i] = x
  <2>1. PICK f : f \in Bijection(1..n, S)
    BY <1>1 DEF ExistsBijection
  <2>2. f \in [1..n -> S] /\ \A x \in S : \E i \in 1..n : f[i] = x
    BY <2>1 DEF Bijection, Surjection
  <2> QED
    BY <2>2
<1>3. PICK b \in Nat : \A i \in 1..n : f[i] <= b
  BY <1>2, SequenceBounded
<1> DEFINE U == {u \in Nat : \A y \in S : y <= u}
<1>4. b \in U
  BY <1>2, <1>3
<1>5. U \subseteq Nat
  OBVIOUS
<1>6. PICK u \in U : \A v \in U : u <= v
  <2> HIDE DEF U
  <2> QED
    BY <1>4, <1>5, LeastNumber
<1>7. u \in S
  <2> SUFFICES ASSUME u \notin S
               PROVE  FALSE
    OBVIOUS
  <2>1. PICK y \in S : TRUE
    OBVIOUS
  <2>2. u \in Nat /\ y \in Nat /\ y <= u /\ y # u
    BY <1>6, <2>1
  <2>3. u - 1 \in Nat
    BY <2>2
  <2>4. \A z \in S : z <= u - 1
    <3> SUFFICES ASSUME NEW z \in S
                 PROVE  z <= u - 1
      OBVIOUS
    <3>1. z \in Nat /\ z <= u /\ z # u
      BY <1>6
    <3> QED
      BY <3>1, <2>2
  <2>5. u - 1 \in U
    BY <2>3, <2>4
  <2> QED
    BY <2>2, <2>5, <1>6
<1>8. \A y \in S : u >= y
  BY <1>6
<1> QED
  BY <1>7, <1>8 DEF Max

-----------------------------------------------------------------------------
\* Steps of a call that take nothing from a write under way

LEMMA StoreIs == \A op : StoreOf(op) \in Store
  BY DEF StoreOf, Store

LEMMA NamesApart ==
  /\ \A kind \in {Note, Scratch} : \A n \in kind :
       /\ n \in File /\ n \notin Rewritten
       /\ n \notin {"meta", "plan", "artifact", "events", "checkpoint", "report", "none"}
  /\ Rewritten \subseteq File /\ \A f \in Rewritten : OwnerOf(f) \in Store
  /\ Note \cap Scratch = {} /\ IsFiniteSet(Note) /\ IsFiniteSet(Scratch) /\ MaxNotes \in Nat \ {0}
  BY FilesAssumption DEF File, Rewritten, OwnerOf, Store

LEMMA FilesInitial == FilesInit => FilesIInv
<1> SUFFICES ASSUME FilesInit
             PROVE  FilesIInv
  OBVIOUS
<1>1. PICK there \in BOOLEAN : content = [f \in File |-> IF there /\ f = "meta" THEN {"before"} ELSE {}]
  BY DEF FilesInit
<1>2. content \in [File -> SUBSET Mark] /\ kept \in [Rewritten -> SUBSET Mark]
  BY <1>1 DEF FilesInit, Mark
<1>3. PICK no : no = Nothing
  OBVIOUS
<1>4. no \in FileCallRecord /\ no.at = "unused" /\ no.gen = 0 /\ no.op = "none"
  BY <1>3 DEF Nothing, FileCallRecord
<1>5. call = [c \in FileCall |-> no]
  BY <1>3 DEF FilesInit
<1>6. focus \subseteq Operation
  BY FilesAssumption DEF FilesInit
<1>7. /\ saved = <<>> /\ logged = <<>> /\ events = <<>> /\ cps = {} /\ reports = {} /\ cuts = 0 /\ forgotten = {}
      /\ storeMutex = [s \in Store |-> 0] /\ kept = [f \in Rewritten |-> {}] /\ Len(<<>>) = 0
  BY DEF FilesInit
<1>8. IsFiniteSet(reports) /\ IsFiniteSet({p.seq : p \in cps}) /\ Cardinality(reports) = 0
  <2>1. {p.seq : p \in cps} = {}
    BY <1>7
  <2> QED
    BY <1>7, <2>1, FS_EmptySet
<1>9. FilesTypeOK
  BY <1>2, <1>4, <1>5, <1>6, <1>7, <1>8 DEF FilesTypeOK, WriteFits
<1>10. MutexesExclude
  BY <1>4, <1>5, <1>7, StoreIs DEF MutexesExclude, UnderMutex
<1>11. WritesPending
  BY <1>4, <1>5 DEF WritesPending, PendingSafe
<1>12. KeptSafe /\ CheckpointsSafe
  BY <1>7 DEF KeptSafe, CheckpointsSafe, Increasing
<1>13. NotesSafe
  <2> SUFFICES ASSUME NEW kind \in {Note, Scratch}
               PROVE  Count(kind) <= MaxNotes
    BY DEF NotesSafe
  <2>1. {n \in kind : content[n] # {}} = {}
    BY <1>1, NamesApart
  <2> QED
    BY <2>1, FS_EmptySet, NamesApart DEF Count
<1>14. ReportsSafe
  BY <1>8, FilesAssumption DEF ReportsSafe
<1>15. LogSafe
  <2>1. BadLines = {}
    BY <1>7 DEF BadLines
  <2> QED
    BY <1>7, <2>1, FS_EmptySet DEF LogSafe
<1> QED
  BY <1>9, <1>10, <1>11, <1>12, <1>13, <1>14, <1>15 DEF FilesIInv, StoresSafe

\* Call c becomes r.
Becomes(c, r) ==
  /\ call' \in [FileCall -> FileCallRecord] /\ call'[c] = r /\ WriteFits(r)
  /\ \A d \in FileCall : d # c => call'[d] = call[d]
  /\ call[c].at # "ok"

\* A save of a report that is late stays late.
StaysLate(c, r) == c \in LateSaves => r.op = "SaveReport" /\ r.at \in {"rest", "error", "dead"}

\* It gives its mutex back or does without, keeps it, or gets it.
MutexMoves(c, r) ==
  /\ storeMutex' \in [Store -> Nat] /\ r.gen <= storeMutex'[StoreOf(r.op)]
  /\ \A s \in Store : storeMutex'[s] >= storeMutex[s] /\ (s \notin forgotten' => storeMutex'[s] = 0)
  /\ "reports" \notin forgotten'
  /\ \/ /\ r.at \notin UnderMutex
        /\ \/ held' = held
           \/ /\ held' = held \ {MyLock(c)}
              /\ call[c].at \in UnderMutex \/ MyLock(c) \notin held
     \/ /\ r.at \in UnderMutex /\ r.op = call[c].op /\ r.gen = call[c].gen
        /\ \/ call[c].at \in UnderMutex /\ held' = held
           \/ MyLock(c) \notin held /\ held' = held \cup {MyLock(c)}

\* Files stay, or go with all that was acknowledged of them.
Shrinks ==
  /\ content' \in [File -> SUBSET Mark] /\ kept' \in [Rewritten -> SUBSET Mark]
  /\ \A f \in Rewritten : kept'[f] \subseteq kept[f] /\ (content'[f] = content[f] \/ kept'[f] = {})
  /\ \A kind \in {Note, Scratch} :
       (\A n \in kind : content'[n] = content[n]) \/ (\A n \in kind : content'[n] = {})
  /\ UNCHANGED <<cps, saved>> \/ (cps' = {} /\ saved' = <<>>)
  /\ reports' = reports \/ reports' = {}
  /\ UNCHANGED <<events, logged>> \/ (events' = <<>> /\ logged' = <<>>)
  /\ cuts' = cuts /\ forgotten \subseteq forgotten' /\ focus' = focus

LEMMA MutexesKept ==
  ASSUME FilesIInv, NEW c \in FileCall, NEW r \in FileCallRecord, Becomes(c, r), MutexMoves(c, r)
  PROVE  MutexesExclude'
<1>1. MutexesExclude /\ storeMutex \in [Store -> Nat] /\ call \in [FileCall -> FileCallRecord]
  BY DEF FilesIInv, FilesTypeOK
<1>2. \A d \in FileCall : d # c => MyLock(d)' = MyLock(d) /\ call'[d] = call[d]
  BY DEF Becomes, MyLock
<1>3. ASSUME NEW d \in FileCall, call'[d].at \in UnderMutex
      PROVE  MyLock(d)' \in held'
  <2>1. CASE d # c
    <3>1. call[d].at \in UnderMutex /\ MyLock(d) \in held /\ MyLock(d)' = MyLock(d)
      BY <1>1, <1>2, <1>3, <2>1 DEF MutexesExclude
    <3>2. call[c].at \in UnderMutex => MyLock(c) # MyLock(d)
      BY <1>1, <2>1, <3>1 DEF MutexesExclude
    <3> QED
      BY <3>1, <3>2 DEF MutexMoves
  <2>2. CASE d = c
    <3>1. MyLock(c)' = MyLock(c)
      BY <1>3, <2>2 DEF MutexMoves, Becomes, MyLock
    <3>2. call[c].at \in UnderMutex => MyLock(c) \in held
      BY <1>1 DEF MutexesExclude
    <3> QED
      BY <1>3, <2>2, <3>1, <3>2 DEF MutexMoves, Becomes
  <2> QED
    BY <2>1, <2>2
<1>4. ASSUME NEW d \in FileCall, d # c, call'[d].at \in UnderMutex, call'[c].at \in UnderMutex
      PROVE  MyLock(c)' # MyLock(d)'
  <2>1. MyLock(c)' = MyLock(c)
    BY <1>4 DEF MutexMoves, Becomes, MyLock
  <2>2. call[d].at \in UnderMutex /\ MyLock(d) \in held /\ MyLock(d)' = MyLock(d)
    BY <1>1, <1>2, <1>4 DEF MutexesExclude
  <2>3. call[c].at \in UnderMutex => MyLock(c) # MyLock(d)
    BY <1>1, <1>4, <2>2 DEF MutexesExclude
  <2> QED
    BY <1>4, <2>1, <2>2, <2>3 DEF MutexMoves, Becomes
<1>5. ASSUME NEW d \in FileCall, NEW e \in FileCall, call'[d].at \in UnderMutex,
             call'[e].at \in UnderMutex, MyLock(d)' = MyLock(e)'
      PROVE  d = e
  <2>1. CASE d # c /\ e # c
    BY <1>1, <1>2, <1>5, <2>1 DEF MutexesExclude
  <2>2. CASE d = c \/ e = c
    BY <1>4, <1>5, <2>2
  <2> QED
    BY <2>1, <2>2
<1>6. \A d \in FileCall : call'[d].gen <= storeMutex'[StoreOf(call'[d].op)]
  <2> SUFFICES ASSUME NEW d \in FileCall
               PROVE  call'[d].gen <= storeMutex'[StoreOf(call'[d].op)]
    OBVIOUS
  <2>1. CASE d # c
    <3>1. PICK s \in Store : s = StoreOf(call[d].op)
      BY StoreIs
    <3>2. call[d].gen <= storeMutex[s] /\ storeMutex'[s] >= storeMutex[s]
      BY <1>1, <3>1 DEF MutexesExclude, MutexMoves
    <3>3. call[d].gen \in Nat /\ storeMutex[s] \in Nat /\ storeMutex'[s] \in Nat
      BY <1>1 DEF MutexMoves, FileCallRecord
    <3> QED
      BY <1>2, <2>1, <3>1, <3>2, <3>3
  <2>2. CASE d = c
    BY <2>2 DEF Becomes, MutexMoves
  <2> QED
    BY <2>1, <2>2
<1>7. "reports" \notin forgotten' /\ \A s \in Store : s \notin forgotten' => storeMutex'[s] = 0
  BY DEF MutexMoves
<1> QED
  BY <1>3, <1>5, <1>6, <1>7 DEF MutexesExclude

LEMMA CountShrinks ==
  ASSUME Shrinks, NEW kind \in {Note, Scratch}
  PROVE  Count(kind)' = Count(kind) \/ Count(kind)' = 0
<1>1. CASE \A n \in kind : content'[n] = content[n]
  <2>1. {n \in kind : content'[n] # {}} = {n \in kind : content[n] # {}}
    BY <1>1
  <2> QED
    BY <2>1 DEF Count
<1>2. CASE \A n \in kind : content'[n] = {}
  <2>1. {n \in kind : content'[n] # {}} = {}
    BY <1>2
  <2> QED
    BY <2>1, FS_EmptySet DEF Count
<1> QED
  BY <1>1, <1>2 DEF Shrinks

LEMMA PendingShrinks ==
  ASSUME Shrinks, NEW r \in FileCallRecord, PendingSafe(r)
  PROVE  PendingSafe(r)'
<1>1. r.at = "write" /\ r.file \in Rewritten /\ OwnerOf(r.file) \notin forgotten' =>
        kept'[r.file] \subseteq r.new
  BY DEF Shrinks, PendingSafe
<1>2. r.at = "write" /\ r.op = "Save" /\ "checkpoints" \notin forgotten' =>
        \A p \in cps', n \in r.new : p.seq < n
  BY DEF Shrinks, PendingSafe
<1>3. ASSUME r.at = "write", r.new # {}, "workspace" \notin forgotten',
             NEW kind \in {Note, Scratch}, r.file \in kind
      PROVE  content'[r.file] # {} \/ Count(kind)' < MaxNotes
  <2>1. content[r.file] # {} \/ Count(kind) < MaxNotes
    BY <1>3 DEF Shrinks, PendingSafe
  <2>2. CASE \A n \in kind : content'[n] = content[n]
    <3>1. {n \in kind : content'[n] # {}} = {n \in kind : content[n] # {}}
      BY <2>2
    <3>2. Count(kind)' = Count(kind)
      BY <3>1 DEF Count
    <3> QED
      BY <1>3, <2>1, <2>2, <3>2
  <2>3. CASE \A n \in kind : content'[n] = {}
    <3>1. {n \in kind : content'[n] # {}} = {}
      BY <2>3
    <3>2. Count(kind)' = 0
      BY <3>1, FS_EmptySet DEF Count
    <3> QED
      BY <3>2, NamesApart
  <2> QED
    BY <2>2, <2>3 DEF Shrinks
<1>4. r.at \in {"write", "rest"} /\ r.op = "SaveReport" => reports' \subseteq r.new
  BY DEF Shrinks, PendingSafe
<1> QED
  BY <1>1, <1>2, <1>3, <1>4 DEF PendingSafe

LEMMA QuietCall ==
  ASSUME FilesIInv, NEW c \in FileCall, NEW r \in FileCallRecord, Becomes(c, r), MutexMoves(c, r),
         StaysLate(c, r), Shrinks, PendingSafe(r)'
  PROVE  FilesIInv'
<1>1. FilesTypeOK /\ WritesPending /\ StoresSafe
  BY DEF FilesIInv
<1>2. FilesTypeOK'
  <2>1. \A d \in FileCall : WriteFits(call'[d])
    BY <1>1 DEF FilesTypeOK, Becomes
  <2>2. cps' \subseteq [seq : Nat, by : FileCall] /\ IsFiniteSet({p.seq : p \in cps'}) /\ saved' \in Seq(Nat)
    <3>1. CASE UNCHANGED <<cps, saved>>
      BY <1>1, <3>1 DEF FilesTypeOK
    <3>2. CASE cps' = {} /\ saved' = <<>>
      <4>1. {p.seq : p \in cps'} = {} /\ <<>> \in Seq(Nat)
        BY <3>2
      <4>2. IsFiniteSet({p.seq : p \in cps'})
        BY <4>1, FS_EmptySet
      <4> QED
        BY <3>2, <4>1, <4>2
    <3> QED
      BY <3>1, <3>2 DEF Shrinks
  <2>3. reports' \subseteq Nat /\ IsFiniteSet(reports')
    BY <1>1, FS_EmptySet DEF FilesTypeOK, Shrinks
  <2>4. events' \in Seq(EventLine) /\ logged' \in Seq(FileCall) /\ cuts' \in Nat
    <3>1. <<>> \in Seq(EventLine) /\ <<>> \in Seq(FileCall)
      OBVIOUS
    <3>2. UNCHANGED <<events, logged>> \/ (events' = <<>> /\ logged' = <<>>)
      BY DEF Shrinks
    <3>3. cuts' \in Nat
      BY <1>1 DEF FilesTypeOK, Shrinks
    <3> QED
      BY <1>1, <3>1, <3>2, <3>3 DEF FilesTypeOK
  <2> QED
    BY <1>1, <2>1, <2>2, <2>3, <2>4 DEF FilesTypeOK, Shrinks, Becomes, MutexMoves
<1>3. MutexesExclude'
  BY MutexesKept
<1>4. WritesPending'
  <2> SUFFICES ASSUME NEW d \in FileCall
               PROVE  PendingSafe(call[d])'
    BY DEF WritesPending
  <2>1. PICK x \in FileCallRecord : x = call'[d]
    BY <1>2 DEF FilesTypeOK
  <2>2. CASE d = c
    BY <2>2 DEF Becomes, PendingSafe
  <2>3. CASE d # c
    <3>1. x = call[d] /\ PendingSafe(x)
      BY <1>1, <2>1, <2>3 DEF Becomes, WritesPending
    <3>2. PendingSafe(x)'
      BY <3>1, PendingShrinks
    <3> QED
      BY <2>1, <3>2 DEF PendingSafe
  <2> QED
    BY <2>2, <2>3
<1>5. KeptSafe'
  BY <1>1, NamesApart DEF StoresSafe, KeptSafe, Shrinks
<1>6. CheckpointsSafe'
  BY <1>1 DEF StoresSafe, CheckpointsSafe, Shrinks, Increasing
<1>7. NotesSafe'
  <2> SUFFICES ASSUME "workspace" \notin forgotten', NEW kind \in {Note, Scratch}
               PROVE  Count(kind)' <= MaxNotes
    BY DEF NotesSafe
  <2>1. Count(kind) <= MaxNotes
    BY <1>1 DEF StoresSafe, NotesSafe, Shrinks
  <2> QED
    BY <2>1, CountShrinks, NamesApart
<1>8. ReportsSafe'
  <2> SUFFICES ASSUME LateSaves' = {}
               PROVE  Cardinality(reports') <= MaxReports
    BY DEF ReportsSafe
  <2>1. LateSaves = {}
    <3> SUFFICES ASSUME NEW d \in LateSaves
                 PROVE  FALSE
      OBVIOUS
    <3>1. d \in LateSaves'
      BY DEF LateSaves, Becomes, StaysLate
    <3> QED
      BY <3>1
  <2>2. Cardinality(reports) <= MaxReports
    BY <1>1, <2>1 DEF StoresSafe, ReportsSafe
  <2>3. Cardinality({}) <= MaxReports
    BY FS_EmptySet, FilesAssumption
  <2> QED
    BY <2>2, <2>3 DEF Shrinks
<1>9. LogSafe'
  <2>1. LogSafe /\ cuts \in Nat /\ cuts' = cuts
    BY <1>1 DEF StoresSafe, FilesTypeOK, Shrinks
  <2>2. CASE UNCHANGED <<events, logged>>
    <3>1. BadLines' = BadLines
      BY <2>2 DEF BadLines
    <3>2. \A i \in 1..Len(logged) : call'[logged[i]].at = "ok"
      <4> SUFFICES ASSUME NEW i \in 1..Len(logged)
                   PROVE  call'[logged[i]].at = "ok"
        OBVIOUS
      <4>1. logged[i] \in FileCall
        BY <1>1 DEF FilesTypeOK
      <4>2. call[logged[i]].at = "ok"
        BY <2>1 DEF LogSafe
      <4> QED
        BY <4>1, <4>2 DEF Becomes
    <3> QED
      BY <2>1, <2>2, <3>1, <3>2 DEF LogSafe
  <2>3. CASE events' = <<>> /\ logged' = <<>>
    <3>1. BadLines' = {}
      BY <2>3 DEF BadLines
    <3>2. Len(<<>>) = 0 /\ Cardinality({}) = 0
      BY FS_EmptySet
    <3> QED
      BY <2>1, <2>3, <3>1, <3>2 DEF LogSafe
  <2> QED
    BY <2>2, <2>3 DEF Shrinks
<1> QED
  BY <1>2, <1>3, <1>4, <1>5, <1>6, <1>7, <1>8, <1>9 DEF FilesIInv, StoresSafe

\* The mutexes of the stores: a store forgets its own, or nothing happens.
MutexMapGrows ==
  /\ storeMutex' \in [Store -> Nat]
  /\ \A s \in Store : storeMutex'[s] >= storeMutex[s] /\ (s \notin forgotten' => storeMutex'[s] = 0)
  /\ "reports" \notin forgotten'

LEMMA MapUnchanged ==
  ASSUME FilesIInv, UNCHANGED <<storeMutex, forgotten>>
  PROVE  MutexMapGrows
<1>1. storeMutex \in [Store -> Nat] /\ "reports" \notin forgotten
      /\ \A s \in Store : s \notin forgotten => storeMutex[s] = 0
  BY DEF FilesIInv, FilesTypeOK, MutexesExclude
<1> QED
  BY <1>1 DEF MutexMapGrows

LEMMA MapForgets ==
  ASSUME FilesIInv, NEW s \in Store, s # "reports", ForgetMutex(s)
  PROVE  MutexMapGrows /\ forgotten \subseteq forgotten'
<1>1. storeMutex \in [Store -> Nat] /\ "reports" \notin forgotten /\ \A t \in Store : t \notin forgotten => storeMutex[t] = 0
  BY DEF FilesIInv, FilesTypeOK, MutexesExclude
<1>2. storeMutex' = [storeMutex EXCEPT ![s] = storeMutex[s] + 1] /\ forgotten' = forgotten \cup {s}
  BY DEF ForgetMutex
<1> QED
  BY <1>1, <1>2 DEF MutexMapGrows

LEMMA NothingShrinks ==
  ASSUME FilesIInv,
         UNCHANGED <<focus, content, kept, cps, saved, reports, events, logged, cuts, forgotten>>
  PROVE  Shrinks
<1>1. content \in [File -> SUBSET Mark] /\ kept \in [Rewritten -> SUBSET Mark]
  BY DEF FilesIInv, FilesTypeOK
<1> QED
  BY <1>1 DEF Shrinks

\* What goes with files fs; the notes go all or not at all, and so do the
\* scratch entries.
LEMMA ForgetShrinks ==
  ASSUME FilesIInv, NEW fs \in SUBSET File, Forget(fs),
         \A kind \in {Note, Scratch} : kind \subseteq fs \/ kind \cap fs = {},
         UNCHANGED <<cps, saved>> \/ (cps' = {} /\ saved' = <<>>),
         reports' = reports \/ reports' = {},
         UNCHANGED <<events, logged>> \/ (events' = <<>> /\ logged' = <<>>),
         UNCHANGED <<cuts, focus>>, forgotten \subseteq forgotten'
  PROVE  Shrinks
<1>1. content \in [File -> SUBSET Mark] /\ kept \in [Rewritten -> SUBSET Mark]
  BY DEF FilesIInv, FilesTypeOK
<1>2. /\ content' = [f \in File |-> IF f \in fs THEN {} ELSE content[f]]
      /\ kept' = [f \in Rewritten |-> IF f \in fs THEN {} ELSE kept[f]]
  BY DEF Forget
<1>3. content' \in [File -> SUBSET Mark] /\ kept' \in [Rewritten -> SUBSET Mark]
  BY <1>1, <1>2
<1>4. \A f \in Rewritten : kept'[f] \subseteq kept[f] /\ (content'[f] = content[f] \/ kept'[f] = {})
  BY <1>2, NamesApart
<1>5. \A kind \in {Note, Scratch} :
        (\A n \in kind : content'[n] = content[n]) \/ (\A n \in kind : content'[n] = {})
  <2> SUFFICES ASSUME NEW kind \in {Note, Scratch}
               PROVE  (\A n \in kind : content'[n] = content[n]) \/ (\A n \in kind : content'[n] = {})
    OBVIOUS
  <2>1. \A n \in kind : n \in File
    BY NamesApart
  <2> QED
    BY <1>2, <2>1
<1> QED
  BY <1>3, <1>4, <1>5 DEF Shrinks

LEMMA CallEnds ==
  ASSUME FilesIInv, NEW c \in FileCall, NEW how \in {"ok", "error"}, End(c, how),
         call[c].at \in UnderMutex \/ (call[c].at = "promoting" /\ MyLock(c) \notin held),
         c \in LateSaves => how = "error", MutexMapGrows, Shrinks
  PROVE  FilesIInv'
<1>1. call \in [FileCall -> FileCallRecord] /\ call[c] \in FileCallRecord
  BY DEF FilesIInv, FilesTypeOK
<1>2. PICK r : r = [call[c] EXCEPT !.at = how, !.new = {}, !.file = "none"]
  OBVIOUS
<1>3. /\ r \in FileCallRecord /\ r.at = how /\ r.op = call[c].op /\ r.gen = call[c].gen
  BY <1>1, <1>2 DEF FileCallRecord
<1>4. call' = [call EXCEPT ![c] = r]
  BY <1>1, <1>2 DEF End
<1>5. Becomes(c, r) /\ StaysLate(c, r)
  <2>1. WriteFits(r)
    BY <1>3 DEF WriteFits
  <2>2. StaysLate(c, r)
    BY <1>3 DEF LateSaves, StaysLate
  <2>3. call[c].at # "ok"
    BY DEF UnderMutex
  <2> QED
    BY <1>1, <1>3, <1>4, <2>1, <2>2, <2>3 DEF Becomes
<1>6. MutexMoves(c, r)
  <2>1. r.at \notin UnderMutex
    BY <1>3 DEF UnderMutex
  <2>2. PICK s \in Store : s = StoreOf(r.op)
    BY StoreIs
  <2>3. r.gen <= storeMutex[s] /\ storeMutex'[s] >= storeMutex[s]
    BY <1>3, <2>2 DEF FilesIInv, MutexesExclude, MutexMapGrows
  <2>4. r.gen \in Nat /\ storeMutex[s] \in Nat /\ storeMutex'[s] \in Nat
    BY <1>3 DEF FilesIInv, FilesTypeOK, FileCallRecord, MutexMapGrows
  <2>5. r.gen <= storeMutex'[s]
    BY <2>3, <2>4
  <2> QED
    BY <2>1, <2>2, <2>5 DEF MutexMoves, MutexMapGrows, End
<1>7. PendingSafe(r)'
  BY <1>3 DEF PendingSafe
<1> QED
  BY <1>3, <1>5, <1>6, <1>7, QuietCall

LEMMA CallFails ==
  ASSUME FilesIInv, NEW c \in FileCall, Fails(c), Step,
         call[c].at \in UnderMutex \/ (call[c].at = "promoting" /\ MyLock(c) \notin held)
  PROVE  FilesIInv'
<1>1. UNCHANGED <<focus, storeMutex, content, kept, cps, saved, reports, events, logged, cuts, forgotten>>
  BY DEF Fails, Step, dirDisk, history
<1> QED
  BY <1>1, CallEnds, MapUnchanged, NothingShrinks DEF Fails

GoesToWrite(c, f, new) ==
  call' = [call EXCEPT ![c].at = "write", ![c].file = f, ![c].new = new]

\* Whether a write of new to f is safe for any record of call c.
WriteSafe(c, f, new) ==
  \A r \in FileCallRecord :
    r.op = call[c].op /\ r.at = "write" /\ r.file = f /\ r.new = new =>
      WriteFits(r) /\ PendingSafe(r)'

LEMMA CallToWrite ==
  ASSUME FilesIInv, NEW c \in FileCall, NEW new \in SUBSET Mark,
         NEW f \in File \cup {"none", "events", "checkpoint", "report"},
         GoesToWrite(c, f, new), WriteSafe(c, f, new),
         \/ call[c].at = "locked" /\ held' = held
         \/ call[c].at = "promoting" /\ MyLock(c) \notin held /\ held' = held \cup {MyLock(c)},
         UNCHANGED <<storeMutex, forgotten>>, Shrinks
  PROVE  FilesIInv'
<1>1. call \in [FileCall -> FileCallRecord] /\ call[c] \in FileCallRecord
  BY DEF FilesIInv, FilesTypeOK
<1>2. PICK r : r = [call[c] EXCEPT !.at = "write", !.file = f, !.new = new]
  OBVIOUS
<1>3. /\ r \in FileCallRecord /\ r.at = "write" /\ r.op = call[c].op /\ r.gen = call[c].gen
      /\ r.file = f /\ r.new = new
  BY <1>1, <1>2 DEF FileCallRecord
<1>4. call' = [call EXCEPT ![c] = r]
  BY <1>1, <1>2 DEF GoesToWrite
<1>5. WriteFits(r) /\ PendingSafe(r)'
  BY <1>3 DEF WriteSafe
<1>6. Becomes(c, r) /\ StaysLate(c, r)
  <2>1. call[c].at # "ok" /\ StaysLate(c, r)
    BY DEF LateSaves, StaysLate
  <2> QED
    BY <1>1, <1>3, <1>4, <1>5, <2>1 DEF Becomes
<1>7. MutexMoves(c, r)
  <2>1. MutexMapGrows
    BY MapUnchanged
  <2>2. r.gen <= storeMutex'[StoreOf(r.op)]
    BY <1>3 DEF FilesIInv, MutexesExclude
  <2>3. r.at \in UnderMutex /\ (call[c].at = "locked" => call[c].at \in UnderMutex)
    BY <1>3 DEF UnderMutex
  <2> QED
    BY <1>3, <2>1, <2>2, <2>3 DEF MutexMoves, MutexMapGrows
<1> QED
  BY <1>3, <1>5, <1>6, <1>7, QuietCall

\* A write to a file without history.
LEMMA PlainWrite ==
  ASSUME FilesIInv, NEW c \in FileCall, call[c].at = "locked", Step, NEW new \in SUBSET Mark,
         NEW f \in {"meta", "plan", "artifact", "events"}, ToWrite(c, f, new),
         call[c].op \notin {"Save", "SaveReport"}, f = "events" => call[c].op = "AppendEvent"
  PROVE  FilesIInv'
<1>1. Shrinks /\ UNCHANGED <<storeMutex, forgotten>> /\ held' = held
  BY NothingShrinks DEF ToWrite, Step, history
<1>2. f \in File \cup {"none", "events", "checkpoint", "report"} /\ f \notin Rewritten
  BY DEF File, Rewritten
<1>3. f # "events" => f \in File
  BY DEF File
<1>4. f \notin Note /\ f \notin Scratch
  BY NamesApart
<1>5. WriteSafe(c, f, new)
  BY <1>2, <1>3, <1>4 DEF WriteSafe, WriteFits, PendingSafe
<1>6. GoesToWrite(c, f, new)
  BY DEF ToWrite, GoesToWrite
<1> QED
  BY <1>1, <1>2, <1>5, <1>6, CallToWrite

\* A change to a file that is read and written back.
LEMMA RewriteWrite ==
  ASSUME FilesIInv, NEW c \in FileCall, call[c].at = "locked", Step, NEW new \in SUBSET Mark,
         NEW f \in Rewritten, ToWrite(c, f, new), content[f] \subseteq new,
         StoreOf(call[c].op) = OwnerOf(f), call[c].op \notin {"AppendEvent", "Save", "SaveReport"}
  PROVE  FilesIInv'
<1>1. Shrinks /\ UNCHANGED <<storeMutex, forgotten, kept, content>> /\ held' = held
  BY NothingShrinks DEF ToWrite, Step, history
<1>2. f \in File /\ OwnerOf(f) \in Store /\ f \notin Note /\ f \notin Scratch
  BY NamesApart
<1>3. OwnerOf(f) \notin forgotten => kept[f] \subseteq new
  BY DEF FilesIInv, StoresSafe, KeptSafe
<1>4. WriteSafe(c, f, new)
  BY <1>1, <1>2, <1>3 DEF WriteSafe, WriteFits, PendingSafe
<1>5. GoesToWrite(c, f, new)
  BY DEF ToWrite, GoesToWrite
<1> QED
  BY <1>1, <1>2, <1>4, <1>5, CallToWrite

\* A change that takes something out of it.
LEMMA WithoutWrite ==
  ASSUME FilesIInv, NEW c \in FileCall, call[c].at = "locked", Step,
         NEW f \in Rewritten, NEW gone, ToWriteWithout(c, f, gone),
         StoreOf(call[c].op) = OwnerOf(f), call[c].op \notin {"AppendEvent", "Save", "SaveReport"}
  PROVE  FilesIInv'
<1>1. content \in [File -> SUBSET Mark] /\ kept \in [Rewritten -> SUBSET Mark]
  BY DEF FilesIInv, FilesTypeOK
<1>2. f \in File /\ OwnerOf(f) \in Store /\ f \notin Note /\ f \notin Scratch
  BY NamesApart
<1>3. /\ kept' = [kept EXCEPT ![f] = kept[f] \ gone]
      /\ UNCHANGED <<focus, content, cps, saved, reports, events, logged, cuts, forgotten, storeMutex, held>>
  BY DEF ToWriteWithout, Step, dirDisk
<1>4. Shrinks
  BY <1>1, <1>3 DEF Shrinks
<1>5. PICK new \in SUBSET Mark : new = content[f] \ gone
  BY <1>1, <1>2
<1>6. OwnerOf(f) \notin forgotten => kept'[f] \subseteq new
  BY <1>1, <1>3, <1>5 DEF FilesIInv, StoresSafe, KeptSafe
<1>7. WriteSafe(c, f, new)
  BY <1>2, <1>3, <1>6 DEF WriteSafe, WriteFits, PendingSafe
<1>8. GoesToWrite(c, f, new)
  BY <1>5 DEF GoesToWrite, ToWriteWithout
<1> QED
  BY <1>2, <1>3, <1>4, <1>7, <1>8, CallToWrite

LEMMA CallAdvances ==
  ASSUME FilesIInv, NEW c \in FileCall, NEW r \in FileCallRecord, call' = [call EXCEPT ![c] = r],
         call[c].at \in {"unused", "wait", "locked"}, r.at \in {"wait", "locked", "promoting"},
         r.gen <= storeMutex[StoreOf(r.op)],
         \/ r.at # "locked" /\ held' = held
         \/ r.at = "promoting" /\ call[c].at = "locked" /\ held' = held \ {MyLock(c)}
         \/ /\ r.at = "locked" /\ r.op = call[c].op /\ r.gen = call[c].gen
            /\ MyLock(c) \notin held /\ held' = held \cup {MyLock(c)},
         UNCHANGED <<focus, dirDisk, storeMutex, history>>
  PROVE  FilesIInv'
<1>1. UNCHANGED <<focus, storeMutex, content, kept, cps, saved, reports, events, logged, cuts, forgotten>>
  BY DEF dirDisk, history
<1>2. Shrinks /\ MutexMapGrows
  BY <1>1, NothingShrinks, MapUnchanged
<1>3. call \in [FileCall -> FileCallRecord]
  BY DEF FilesIInv, FilesTypeOK
<1>4. Becomes(c, r) /\ StaysLate(c, r)
  <2>1. WriteFits(r)
    BY DEF WriteFits
  <2>2. call[c].at # "ok" /\ StaysLate(c, r)
    BY DEF LateSaves, StaysLate
  <2> QED
    BY <1>3, <2>1, <2>2 DEF Becomes
<1>5. MutexMoves(c, r)
  BY <1>1, <1>2 DEF MutexMoves, MutexMapGrows, UnderMutex
<1>6. PendingSafe(r)'
  BY DEF PendingSafe
<1> QED
  BY <1>2, <1>4, <1>5, <1>6, QuietCall

LEMMA BeginAndLock ==
  ASSUME FilesIInv, NEW c \in FileCall,
         (\E op \in focus : BeginCall(c, op)) \/ LockCall(c)
  PROVE  FilesIInv'
<1>1. /\ call \in [FileCall -> FileCallRecord] /\ call[c] \in FileCallRecord /\ focus \subseteq Operation
      /\ storeMutex \in [Store -> Nat] /\ call[c].gen <= storeMutex[StoreOf(call[c].op)]
  BY DEF FilesIInv, FilesTypeOK, MutexesExclude
<1>2. ASSUME NEW op \in focus, BeginCall(c, op)
      PROVE  FilesIInv'
  <2>1. PICK g \in Nat : g = storeMutex[StoreOf(op)]
    BY <1>1, StoreIs
  <2>2. PICK no : no = Nothing
    OBVIOUS
  <2>3. no \in FileCallRecord
    BY <2>2 DEF Nothing, FileCallRecord
  <2>4. PICK r : r = [no EXCEPT !.op = op, !.at = "wait", !.gen = g]
    OBVIOUS
  <2>5. r \in FileCallRecord /\ r.at = "wait" /\ r.op = op /\ r.gen = g
    BY <1>1, <2>3, <2>4 DEF FileCallRecord
  <2>6. r.gen <= storeMutex[StoreOf(r.op)]
    BY <2>1, <2>5
  <2>7. call' = [call EXCEPT ![c] = r]
    BY <1>2, <2>1, <2>2, <2>4 DEF BeginCall
  <2> QED
    BY <1>2, <2>5, <2>6, <2>7, CallAdvances DEF BeginCall
<1>3. ASSUME LockCall(c)
      PROVE  FilesIInv'
  <2>1. PICK r : r = [call[c] EXCEPT !.at = "locked"]
    OBVIOUS
  <2>2. r \in FileCallRecord /\ r.at = "locked" /\ r.op = call[c].op /\ r.gen = call[c].gen
    BY <1>1, <2>1 DEF FileCallRecord
  <2>3. call' = [call EXCEPT ![c] = r]
    BY <1>1, <1>3, <2>1 DEF LockCall
  <2> QED
    BY <1>1, <1>3, <2>2, <2>3, CallAdvances DEF LockCall
<1> QED
  BY <1>2, <1>3

LEMMA PromotionKept ==
  ASSUME FilesIInv, NEW c \in FileCall, PromoteSnapshot(c) \/ PromoteCommit(c)
  PROVE  FilesIInv'
<1>1. /\ call \in [FileCall -> FileCallRecord] /\ call[c] \in FileCallRecord
      /\ call[c].gen <= storeMutex[StoreOf(call[c].op)] /\ content \in [File -> SUBSET Mark]
  BY DEF FilesIInv, FilesTypeOK, MutexesExclude
<1>2. ASSUME PromoteSnapshot(c), ReadTree # {}
      PROVE  FilesIInv'
  <2>1. PICK r : r = [call[c] EXCEPT !.at = "promoting"]
    OBVIOUS
  <2>2. r \in FileCallRecord /\ r.at = "promoting" /\ r.op = call[c].op /\ r.gen = call[c].gen
    BY <1>1, <2>1 DEF FileCallRecord
  <2>3. call' = [call EXCEPT ![c] = r]
    BY <1>1, <1>2, <2>1 DEF PromoteSnapshot
  <2> QED
    BY <1>1, <1>2, <2>2, <2>3, CallAdvances DEF PromoteSnapshot, Doing, Step
<1>3. ASSUME PromoteSnapshot(c), ReadTree = {}
      PROVE  FilesIInv'
  BY <1>3, CallFails DEF PromoteSnapshot, Doing, UnderMutex
<1>4. ASSUME PromoteCommit(c), Fails(c)
      PROVE  FilesIInv'
  BY <1>4, CallFails DEF PromoteCommit
<1>5. ASSUME PromoteCommit(c), ~Fails(c)
      PROVE  FilesIInv'
  <2>1. PICK new \in SUBSET Mark : new = ReadTree \cup {c}
    BY <1>1 DEF ReadTree, File, Rewritten, Mark
  <2>2. /\ GoesToWrite(c, "tree", new) /\ call[c].at = "promoting" /\ MyLock(c) \notin held
        /\ held' = held \cup {MyLock(c)} /\ UNCHANGED <<dirDisk, history>> /\ call[c].op = "PromoteNode"
    BY <1>5, <2>1 DEF PromoteCommit, GoesToWrite
  <2>3. UNCHANGED <<focus, storeMutex, content, kept, cps, saved, reports, events, logged, cuts, forgotten>>
    BY <1>5, <2>2 DEF PromoteCommit, Step, dirDisk, history
  <2>4. "tree" \notin forgotten => kept["tree"] \subseteq new
    BY <2>1 DEF FilesIInv, StoresSafe, KeptSafe, OwnerOf, Rewritten, ReadTree
  <2>5. "tree" \in File /\ "tree" \in Rewritten /\ OwnerOf("tree") = "tree" /\ "tree" \notin Note /\ "tree" \notin Scratch
    BY NamesApart DEF File, Rewritten, OwnerOf
  <2>6. WriteSafe(c, "tree", new)
    BY <2>2, <2>3, <2>4, <2>5 DEF WriteSafe, WriteFits, PendingSafe, StoreOf
  <2> QED
    BY <2>2, <2>3, <2>5, <2>6, CallToWrite, NothingShrinks
<1> QED
  BY <1>2, <1>3, <1>4, <1>5

\* The calls of the session store, the metrics store and the tree store up to
\* their write.
LEMMA SessionCallsKept ==
  ASSUME FilesIInv, NEW c \in FileCall,
         CreateDir(c) \/ UpdateMeta(c) \/ SetState(c) \/ DeleteState(c) \/ StatForAppend(c)
  PROVE  FilesIInv'
<1>1. content \in [File -> SUBSET Mark] /\ "state" \in File /\ "state" \in Rewritten
      /\ {c} \in SUBSET Mark /\ {} \in SUBSET Mark /\ OwnerOf("state") = "session"
  BY DEF FilesIInv, FilesTypeOK, Mark, File, Rewritten, OwnerOf
<1>2. ASSUME Fails(c), Step, call[c].at = "locked"
      PROVE  FilesIInv'
  BY <1>2, CallFails DEF UnderMutex
<1>3. CASE CreateDir(c)
  <2>1. CASE "session" \in dirs
    BY <1>2, <1>3, <2>1 DEF CreateDir, Doing
  <2>2. CASE "session" \notin dirs
    BY <1>1, <1>3, <2>2, PlainWrite DEF CreateDir, Doing
  <2> QED
    BY <2>1, <2>2
<1>4. CASE UpdateMeta(c)
  <2>1. CASE HasMeta
    BY <1>1, <1>4, <2>1, PlainWrite DEF UpdateMeta, Doing
  <2>2. CASE ~HasMeta
    BY <1>2, <1>4, <2>2 DEF UpdateMeta, Doing
  <2> QED
    BY <2>1, <2>2
<1>5. CASE SetState(c)
  <2>1. CASE "session" \in dirs
    <3>1. PICK new \in SUBSET Mark : new = ReadState \cup {c}
      BY <1>1 DEF ReadState
    <3>2. ToWrite(c, "state", new) /\ content["state"] \subseteq new
      BY <1>5, <2>1, <3>1 DEF SetState, ReadState
    <3>3. /\ call[c].at = "locked" /\ Step /\ StoreOf(call[c].op) = "session"
          /\ call[c].op \notin {"AppendEvent", "Save", "SaveReport"}
      BY <1>5 DEF SetState, Doing, StoreOf
    <3> QED
      BY <1>1, <3>2, <3>3, RewriteWrite
  <2>2. CASE "session" \notin dirs
    BY <1>2, <1>5, <2>2 DEF SetState, Doing
  <2> QED
    BY <2>1, <2>2
<1>6. CASE DeleteState(c)
  <2>0. /\ call[c].at = "locked" /\ Step /\ StoreOf(call[c].op) = "session"
        /\ call[c].op \notin {"AppendEvent", "Save", "SaveReport"} /\ call[c].op # "SaveReport"
    BY <1>6 DEF DeleteState, Doing, StoreOf
  <2>1. CASE "session" \notin dirs
    BY <1>2, <1>6, <2>0, <2>1 DEF DeleteState
  <2>2. CASE End(c, "ok") /\ UNCHANGED <<dirDisk, history>>
    <3>1. UNCHANGED <<focus, storeMutex, content, kept, cps, saved, reports, events, logged, cuts, forgotten>>
      BY <2>0, <2>2 DEF Step, dirDisk, history
    <3>2. Shrinks /\ MutexMapGrows /\ c \notin LateSaves /\ call[c].at \in UnderMutex
      BY <2>0, <3>1, NothingShrinks, MapUnchanged DEF LateSaves, UnderMutex
    <3> QED
      BY <2>2, <3>2, CallEnds
  <2>3. CASE \E k \in ReadState : ToWriteWithout(c, "state", {k})
    BY <1>1, <2>0, <2>3, WithoutWrite
  <2> QED
    BY <1>6, <2>1, <2>2, <2>3 DEF DeleteState
<1>7. CASE StatForAppend(c)
  <2>1. CASE "session" \in dirs
    BY <1>1, <1>7, <2>1, PlainWrite DEF StatForAppend, Doing
  <2>2. CASE "session" \notin dirs
    BY <1>2, <1>7, <2>2 DEF StatForAppend, Doing
  <2> QED
    BY <2>1, <2>2
<1> QED
  BY <1>3, <1>4, <1>5, <1>6, <1>7

LEMMA TreeCallsKept ==
  ASSUME FilesIInv, NEW c \in FileCall,
         \/ UpdateMetrics(c) \/ CreateTreeFile(c) \/ DeleteNodeFile(c)
         \/ \E op \in {"AddNode", "UpdateNode", "SetCursor"} : RewriteTree(c, op)
  PROVE  FilesIInv'
<1>1. content \in [File -> SUBSET Mark] /\ {"tree", "metrics"} \subseteq File
      /\ {"tree", "metrics"} \subseteq Rewritten /\ {c} \in SUBSET Mark
      /\ OwnerOf("tree") = "tree" /\ OwnerOf("metrics") = "metrics"
  BY DEF FilesIInv, FilesTypeOK, Mark, File, Rewritten, OwnerOf
<1>2. ASSUME Fails(c), Step, call[c].at = "locked"
      PROVE  FilesIInv'
  BY <1>2, CallFails DEF UnderMutex
<1>3. ASSUME NEW f \in {"tree", "metrics"}, ToWrite(c, f, content[f] \cup {c}), Step, call[c].at = "locked",
             StoreOf(call[c].op) = f, call[c].op \notin {"AppendEvent", "Save", "SaveReport"}
      PROVE  FilesIInv'
  <2>1. PICK new \in SUBSET Mark : new = content[f] \cup {c}
    BY <1>1
  <2>2. ToWrite(c, f, new) /\ content[f] \subseteq new /\ f \in Rewritten /\ OwnerOf(f) = f
    BY <1>1, <1>3, <2>1
  <2> QED
    BY <1>3, <2>2, RewriteWrite
<1>4. CASE UpdateMetrics(c)
  <2>1. StoreOf(call[c].op) = "metrics" /\ call[c].op \notin {"AppendEvent", "Save", "SaveReport"}
    BY <1>4 DEF UpdateMetrics, Doing, StoreOf
  <2> QED
    BY <1>3, <1>4, <2>1 DEF UpdateMetrics, Doing
<1>5. CASE CreateTreeFile(c)
  <2>1. StoreOf(call[c].op) = "tree" /\ call[c].op \notin {"AppendEvent", "Save", "SaveReport"}
        /\ call[c].at = "locked" /\ Step
    BY <1>5 DEF CreateTreeFile, Doing, StoreOf
  <2>2. CASE content["tree"] = {}
    <3>1. content["tree"] \cup {c} = {c}
      BY <2>2
    <3>2. ToWrite(c, "tree", content["tree"] \cup {c})
      BY <1>5, <2>2, <3>1 DEF CreateTreeFile
    <3> QED
      BY <1>3, <2>1, <3>2
  <2>3. CASE content["tree"] # {}
    BY <1>2, <1>5, <2>1, <2>3 DEF CreateTreeFile
  <2> QED
    BY <2>2, <2>3
<1>6. ASSUME NEW op \in {"AddNode", "UpdateNode", "SetCursor"}, RewriteTree(c, op)
      PROVE  FilesIInv'
  <2>1. StoreOf(call[c].op) = "tree" /\ call[c].op \notin {"AppendEvent", "Save", "SaveReport"}
        /\ call[c].at = "locked" /\ Step
    BY <1>6 DEF RewriteTree, Doing, StoreOf
  <2>2. CASE ReadTree # {}
    <3>1. ToWrite(c, "tree", content["tree"] \cup {c})
      BY <1>6, <2>2 DEF RewriteTree, ReadTree
    <3> QED
      BY <1>3, <2>1, <3>1
  <2>3. CASE ReadTree = {}
    BY <1>2, <1>6, <2>1, <2>3 DEF RewriteTree
  <2> QED
    BY <2>2, <2>3
<1>7. CASE DeleteNodeFile(c)
  <2>1. StoreOf(call[c].op) = "tree" /\ call[c].op \notin {"AppendEvent", "Save", "SaveReport"}
        /\ call[c].at = "locked" /\ Step
    BY <1>7 DEF DeleteNodeFile, Doing, StoreOf
  <2>2. CASE ReadTree = {}
    BY <1>2, <1>7, <2>1, <2>2 DEF DeleteNodeFile
  <2>3. CASE ReadTree # {}
    <3>1. PICK gone : ToWriteWithout(c, "tree", gone)
      BY <1>7, <2>3 DEF DeleteNodeFile
    <3> QED
      BY <1>1, <2>1, <3>1, WithoutWrite
  <2> QED
    BY <2>2, <2>3
<1> QED
  BY <1>4, <1>5, <1>6, <1>7

\* What deletes files, all of one kind of entries or none.
LEMMA DeletionsKept ==
  ASSUME FilesIInv, NEW c \in FileCall,
         \/ CreateFails(c) \/ CreateRest(c) \/ DeleteSession(c) \/ DeleteMetrics(c)
         \/ DeleteCheckpoints(c) \/ DeleteTreeDir(c) \/ DeleteWorkspace(c) \/ DeleteScratchSlot(c)
  PROVE  FilesIInv'
<1>1. content \in [File -> SUBSET Mark] /\ kept \in [Rewritten -> SUBSET Mark]
  BY DEF FilesIInv, FilesTypeOK
<1>2. /\ {"metrics"} \in SUBSET File /\ {"tree"} \in SUBSET File /\ WorkspaceFiles \in SUBSET File
      /\ \A s \in {"session", "checkpoints", "tree", "workspace"} : s \in Store
  BY DEF File, Rewritten, WorkspaceFiles, Store
<1>3. ASSUME NEW how \in {"ok", "error"}, End(c, how), call[c].at \in UnderMutex, call[c].op # "SaveReport",
             MutexMapGrows, Shrinks
      PROVE  FilesIInv'
  BY <1>3, CallEnds DEF LateSaves
<1>4. CASE CreateFails(c)
  <2>1. /\ End(c, "error") /\ call[c].at \in UnderMutex /\ call[c].op # "SaveReport"
        /\ UNCHANGED <<focus, cuts, forgotten, storeMutex>> /\ RemoveSession
    BY <1>4 DEF CreateFails, Step, UnderMutex
  <2>2. Shrinks
    <3>1. \A kind \in {Note, Scratch} : kind \subseteq File \/ kind \cap File = {}
      BY DEF File
    <3>2. Forget(File) /\ cps' = {} /\ saved' = <<>> /\ reports' = {} /\ events' = <<>> /\ logged' = <<>>
      BY <2>1 DEF RemoveSession
    <3>3. File \in SUBSET File /\ forgotten \subseteq forgotten'
      BY <2>1
    <3> QED
      BY <2>1, <3>1, <3>2, <3>3, ForgetShrinks
  <2> QED
    BY <1>3, <2>1, <2>2, MapUnchanged
<1>5. CASE CreateRest(c)
  <2>1. /\ End(c, "ok") /\ call[c].at \in UnderMutex /\ call[c].op # "SaveReport"
        /\ UNCHANGED <<focus, cuts, forgotten, storeMutex, cps, reports, events, saved, logged>>
        /\ content' = [content EXCEPT !["state"] = {}] /\ kept' = [kept EXCEPT !["state"] = {}]
    BY <1>5 DEF CreateRest, Step, UnderMutex
  <2>2. Shrinks
    <3>1. content' \in [File -> SUBSET Mark] /\ kept' \in [Rewritten -> SUBSET Mark]
      BY <1>1, <2>1
    <3>2. \A f \in Rewritten : kept'[f] \subseteq kept[f] /\ (content'[f] = content[f] \/ kept'[f] = {})
      BY <1>1, <2>1, NamesApart
    <3>3. \A kind \in {Note, Scratch} : \A n \in kind : content'[n] = content[n]
      BY <1>1, <2>1, NamesApart DEF Rewritten
    <3> QED
      BY <2>1, <3>1, <3>2, <3>3 DEF Shrinks
  <2> QED
    BY <1>3, <2>1, <2>2, MapUnchanged
<1>6. CASE DeleteSession(c)
  <2>1. /\ End(c, "ok") /\ call[c].at \in UnderMutex /\ call[c].op # "SaveReport"
        /\ UNCHANGED <<focus, cuts>> /\ RemoveSession /\ ForgetMutex("session")
    BY <1>6 DEF DeleteSession, Doing, UnderMutex
  <2>2. MutexMapGrows /\ forgotten \subseteq forgotten'
    BY <1>2, <2>1, MapForgets
  <2>3. Shrinks
    <3>1. \A kind \in {Note, Scratch} : kind \subseteq File \/ kind \cap File = {}
      BY DEF File
    <3>2. Forget(File) /\ cps' = {} /\ saved' = <<>> /\ reports' = {} /\ events' = <<>> /\ logged' = <<>>
      BY <2>1 DEF RemoveSession
    <3>3. File \in SUBSET File
      OBVIOUS
    <3> QED
      BY <2>1, <2>2, <3>1, <3>2, <3>3, ForgetShrinks
  <2> QED
    BY <1>3, <2>1, <2>2, <2>3
<1>7. CASE DeleteMetrics(c)
  <2>1. /\ End(c, "ok") /\ call[c].at \in UnderMutex /\ call[c].op # "SaveReport"
        /\ UNCHANGED <<focus, cuts, forgotten, storeMutex, cps, reports, events, saved, logged>>
        /\ Forget({"metrics"})
    BY <1>7 DEF DeleteMetrics, Doing, Step, UnderMutex
  <2>2. \A kind \in {Note, Scratch} : kind \subseteq {"metrics"} \/ kind \cap {"metrics"} = {}
    BY NamesApart DEF Rewritten
  <2>3. forgotten \subseteq forgotten'
    BY <2>1
  <2>4. Shrinks
    BY <1>2, <2>1, <2>2, <2>3, ForgetShrinks
  <2> QED
    BY <1>3, <2>1, <2>4, MapUnchanged
<1>8. CASE DeleteCheckpoints(c)
  <2>1. /\ End(c, "ok") /\ call[c].at \in UnderMutex /\ call[c].op # "SaveReport" /\ ForgetMutex("checkpoints")
        /\ UNCHANGED <<focus, content, reports, events, kept, logged, cuts>> /\ cps' = {} /\ saved' = <<>>
    BY <1>8 DEF DeleteCheckpoints, Doing, UnderMutex
  <2>2. MutexMapGrows /\ forgotten \subseteq forgotten'
    BY <1>2, <2>1, MapForgets
  <2>3. Shrinks
    BY <1>1, <2>1, <2>2 DEF Shrinks
  <2> QED
    BY <1>3, <2>1, <2>2, <2>3
<1>9. CASE DeleteTreeDir(c)
  <2>1. /\ End(c, "ok") /\ call[c].at \in UnderMutex /\ call[c].op # "SaveReport" /\ ForgetMutex("tree")
        /\ UNCHANGED <<focus, cps, reports, events, saved, logged, cuts>> /\ Forget({"tree"})
    BY <1>9 DEF DeleteTreeDir, Doing, UnderMutex
  <2>2. MutexMapGrows /\ forgotten \subseteq forgotten'
    BY <1>2, <2>1, MapForgets
  <2>3. \A kind \in {Note, Scratch} : kind \subseteq {"tree"} \/ kind \cap {"tree"} = {}
    BY NamesApart DEF Rewritten
  <2>4. Shrinks
    BY <1>2, <2>1, <2>2, <2>3, ForgetShrinks
  <2> QED
    BY <1>3, <2>1, <2>2, <2>4
<1>10. CASE DeleteWorkspace(c)
  <2>1. /\ End(c, "ok") /\ call[c].at \in UnderMutex /\ call[c].op # "SaveReport" /\ ForgetMutex("workspace")
        /\ UNCHANGED <<focus, cps, reports, events, saved, logged, cuts>> /\ Forget(WorkspaceFiles)
    BY <1>10 DEF DeleteWorkspace, Doing, UnderMutex
  <2>2. MutexMapGrows /\ forgotten \subseteq forgotten'
    BY <1>2, <2>1, MapForgets
  <2>3. \A kind \in {Note, Scratch} : kind \subseteq WorkspaceFiles \/ kind \cap WorkspaceFiles = {}
    BY DEF WorkspaceFiles
  <2>4. Shrinks
    BY <1>2, <2>1, <2>2, <2>3, ForgetShrinks
  <2> QED
    BY <1>3, <2>1, <2>2, <2>4
<1>11. CASE DeleteScratchSlot(c)
  <2>1. /\ End(c, "ok") /\ call[c].at \in UnderMutex /\ call[c].op # "SaveReport"
        /\ UNCHANGED <<focus, cps, reports, events, storeMutex, kept, saved, logged, cuts, forgotten>>
        /\ content' = [f \in File |-> IF f \in Scratch THEN {} ELSE content[f]]
    BY <1>11 DEF DeleteScratchSlot, Doing, Step, UnderMutex, history
  <2>2. Shrinks
    <3>1. content' \in [File -> SUBSET Mark] /\ kept' \in [Rewritten -> SUBSET Mark]
      BY <1>1, <2>1
    <3>2. \A f \in Rewritten : kept'[f] \subseteq kept[f] /\ content'[f] = content[f]
      <4>1. \A f \in Rewritten : f \in File /\ f \notin Scratch
        BY NamesApart
      <4> QED
        BY <2>1, <4>1
    <3>3. (\A n \in Note : content'[n] = content[n]) /\ (\A n \in Scratch : content'[n] = {})
      <4>1. \A n \in Note : n \in File /\ n \notin Scratch
        BY NamesApart
      <4>2. \A n \in Scratch : n \in File
        BY NamesApart
      <4> QED
        BY <2>1, <4>1, <4>2
    <3> QED
      BY <2>1, <3>1, <3>2, <3>3 DEF Shrinks
  <2> QED
    BY <1>3, <2>1, <2>2, MapUnchanged
<1> QED
  BY <1>4, <1>5, <1>6, <1>7, <1>8, <1>9, <1>10, <1>11

\* The calls of the workspace, the checkpoint store and the sink up to their
\* write.
LEMMA WorkspaceCallsKept ==
  ASSUME FilesIInv, NEW c \in FileCall,
         WritePlan(c) \/ WriteNote(c) \/ WriteScratch(c) \/ WriteArtifact(c)
  PROVE  FilesIInv'
<1>1. {c} \in SUBSET Mark /\ {} \in SUBSET Mark
  BY DEF Mark
<1>2. CASE WritePlan(c)
  <2>1. PICK new \in SUBSET Mark : ToWrite(c, "plan", new)
    BY <1>1, <1>2 DEF WritePlan
  <2>2. call[c].at = "locked" /\ Step /\ call[c].op \notin {"Save", "SaveReport"}
    BY <1>2 DEF WritePlan, Doing
  <2> QED
    BY <2>1, <2>2, PlainWrite
<1>3. CASE WriteArtifact(c)
  <2>1. call[c].at = "locked" /\ Step /\ call[c].op \notin {"Save", "SaveReport"}
    BY <1>3 DEF WriteArtifact, Doing
  <2> QED
    BY <1>1, <1>3, <2>1, PlainWrite DEF WriteArtifact
<1>4. ASSUME NEW kind \in {Note, Scratch}, WriteEntry(c, kind), Step, call[c].at = "locked",
             call[c].op \in {"WriteNote", "WriteScratch"}
      PROVE  FilesIInv'
  <2>1. CASE Fails(c)
    BY <1>4, <2>1, CallFails DEF UnderMutex
  <2>2. CASE ~Fails(c)
    <3>1. PICK n \in kind, new \in SUBSET Mark :
            ToWrite(c, n, new) /\ (new # {} => content[n] # {} \/ Count(kind) < MaxNotes)
      BY <1>1, <1>4, <2>2 DEF WriteEntry
    <3>2. /\ GoesToWrite(c, n, new) /\ held' = held
          /\ UNCHANGED <<focus, storeMutex, content, kept, cps, saved, reports, events, logged, cuts, forgotten>>
      BY <1>4, <3>1 DEF ToWrite, Step, GoesToWrite, history
    <3>3. n \in File /\ n \notin Rewritten /\ \A other \in {Note, Scratch} : n \in other => other = kind
      BY NamesApart
    <3>4. StoreOf(call[c].op) = "workspace"
      BY <1>4 DEF StoreOf
    <3>5. Count(kind)' = Count(kind)
      BY <3>2 DEF Count
    <3>6. WriteSafe(c, n, new)
      <4> SUFFICES ASSUME NEW r \in FileCallRecord, r.op = call[c].op, r.at = "write", r.file = n, r.new = new
                   PROVE  WriteFits(r) /\ PendingSafe(r)'
        BY DEF WriteSafe
      <4>1. WriteFits(r)
        BY <1>4, <3>3, <3>4 DEF WriteFits
      <4>2. PendingSafe(r)'
        <5>1. \A other \in {Note, Scratch} : r.new # {} /\ r.file \in other =>
                content'[r.file] # {} \/ Count(other)' < MaxNotes
          <6> SUFFICES ASSUME NEW other \in {Note, Scratch}, r.new # {}, r.file \in other
                       PROVE  content'[r.file] # {} \/ Count(other)' < MaxNotes
            OBVIOUS
          <6>1. other = kind
            BY <3>3
          <6> QED
            BY <3>1, <3>2, <3>5, <6>1
        <5> QED
          BY <1>4, <3>3, <5>1 DEF PendingSafe
      <4> QED
        BY <4>1, <4>2
    <3> QED
      BY <1>4, <3>2, <3>3, <3>6, CallToWrite, NothingShrinks
  <2> QED
    BY <2>1, <2>2
<1>5. CASE WriteNote(c)
  BY <1>4, <1>5 DEF WriteNote, Doing
<1>6. CASE WriteScratch(c)
  BY <1>4, <1>6 DEF WriteScratch, Doing
<1> QED
  BY <1>2, <1>3, <1>4, <1>5, <1>6

LEMMA NumbersAboveAll ==
  ASSUME NEW S, S \subseteq Nat, IsFiniteSet(S)
  PROVE  LET n == IF S = {} THEN 1 ELSE Max(S) + 1
         IN  n \in Nat /\ \A y \in S : y < n
<1>1. CASE S = {}
  BY <1>1
<1>2. CASE S # {}
  <2>1. PICK m \in Nat : m = Max(S) /\ \A y \in S : m >= y
    BY <1>2, GreatestNumber
  <2>2. \A y \in S : y \in Nat /\ m >= y
    BY <2>1
  <2> QED
    BY <1>2, <2>1, <2>2
<1> QED
  BY <1>1, <1>2

LEMMA NumberedCallsKept ==
  ASSUME FilesIInv, NEW c \in FileCall, SaveCheckpoint(c) \/ SaveReport(c)
  PROVE  FilesIInv'
<1>1. CASE SaveCheckpoint(c)
  <2>1. PICK n \in Nat : n = NextSequence /\ \A p \in cps : p.seq < n
    <3>1. {p.seq : p \in cps} \subseteq Nat /\ IsFiniteSet({p.seq : p \in cps})
      BY DEF FilesIInv, FilesTypeOK
    <3>2. {p.seq : p \in cps} = {} <=> cps = {}
      OBVIOUS
    <3>3. NextSequence \in Nat /\ \A y \in {p.seq : p \in cps} : y < NextSequence
      BY <3>1, <3>2, NumbersAboveAll DEF NextSequence
    <3> QED
      BY <3>3
  <2>2. PICK new \in SUBSET Mark : new = {n}
    BY DEF Mark
  <2>3. /\ GoesToWrite(c, "checkpoint", new) /\ held' = held /\ call[c].at = "locked" /\ call[c].op = "Save"
        /\ UNCHANGED <<focus, storeMutex, content, kept, cps, saved, reports, events, logged, cuts, forgotten>>
    BY <1>1, <2>1, <2>2 DEF SaveCheckpoint, Doing, ToWrite, Step, GoesToWrite, history
  <2>4. "checkpoint" \notin Rewritten /\ "checkpoint" \notin Note /\ "checkpoint" \notin Scratch
    BY NamesApart DEF Rewritten
  <2>5. WriteSafe(c, "checkpoint", new)
    <3>1. \A p \in cps', k \in new : p.seq < k
      BY <2>1, <2>2, <2>3
    <3> QED
      BY <2>2, <2>3, <2>4, <3>1 DEF WriteSafe, WriteFits, PendingSafe
  <2> QED
    BY <2>3, <2>5, CallToWrite, NothingShrinks
<1>2. CASE SaveReport(c)
  <2>1. PICK n \in Nat : n = (IF reports = {} THEN 1 ELSE Max(reports) + 1)
    BY NumbersAboveAll DEF FilesIInv, FilesTypeOK
  <2>2. reports \cup {n} \subseteq Nat /\ IsFiniteSet(reports \cup {n})
    BY FS_AddElement DEF FilesIInv, FilesTypeOK
  <2>3. PICK new \in SUBSET Mark : new = reports \cup {n}
    BY <2>2 DEF Mark
  <2>4. /\ GoesToWrite(c, "report", new) /\ held' = held /\ call[c].at = "locked" /\ call[c].op = "SaveReport"
        /\ UNCHANGED <<focus, storeMutex, content, kept, cps, saved, reports, events, logged, cuts, forgotten>>
    BY <1>2, <2>1, <2>3 DEF SaveReport, Doing, ToWrite, Step, GoesToWrite, history
  <2>5. "report" \notin Rewritten /\ "report" \notin Note /\ "report" \notin Scratch
    BY NamesApart DEF Rewritten
  <2>6. WriteSafe(c, "report", new)
    BY <2>2, <2>3, <2>4, <2>5 DEF WriteSafe, WriteFits, PendingSafe
  <2> QED
    BY <2>4, <2>6, CallToWrite, NothingShrinks
<1> QED
  BY <1>1, <1>2

-----------------------------------------------------------------------------
\* Steps that write

LEMMA Alone ==
  ASSUME FilesIInv, NEW c \in FileCall, NEW d \in FileCall, call[c].at \in UnderMutex,
         call[d].at \in UnderMutex, StoreOf(call[c].op) = StoreOf(call[d].op),
         StoreOf(call[c].op) \notin forgotten
  PROVE  c = d
<1>1. PICK s \in Store : s = StoreOf(call[c].op)
  BY StoreIs
<1>2. storeMutex[s] = 0 /\ call[c].gen <= storeMutex[s] /\ call[d].gen <= storeMutex[s]
  BY <1>1 DEF FilesIInv, MutexesExclude
<1>3. call[c].gen \in Nat /\ call[d].gen \in Nat
  BY DEF FilesIInv, FilesTypeOK, FileCallRecord
<1>4. call[c].gen = 0 /\ call[d].gen = 0
  BY <1>2, <1>3
<1>5. MyLock(c) = MyLock(d)
  BY <1>4 DEF MyLock
<1> QED
  BY <1>5 DEF FilesIInv, MutexesExclude

LEMMA EventLogStays ==
  ASSUME FilesIInv, UNCHANGED <<events, logged, cuts>>,
         \A d \in FileCall : call[d].at = "ok" => call'[d].at = "ok"
  PROVE  LogSafe'
<1>1. LogSafe /\ logged \in Seq(FileCall)
  BY DEF FilesIInv, StoresSafe, FilesTypeOK
<1>2. BadLines' = BadLines
  BY DEF BadLines
<1>3. \A i \in 1..Len(logged) : call'[logged[i]].at = "ok"
  <2> SUFFICES ASSUME NEW i \in 1..Len(logged)
               PROVE  call'[logged[i]].at = "ok"
    OBVIOUS
  <2>1. logged[i] \in FileCall /\ call[logged[i]].at = "ok"
    BY <1>1 DEF LogSafe
  <2> QED
    BY <2>1
<1> QED
  BY <1>1, <1>2, <1>3 DEF LogSafe

LEMMA ReportsStay ==
  ASSUME FilesIInv, UNCHANGED reports, LateSaves \subseteq LateSaves'
  PROVE  ReportsSafe'
  BY DEF FilesIInv, StoresSafe, ReportsSafe

LEMMA CheckpointsStay ==
  ASSUME FilesIInv, UNCHANGED <<cps, saved, forgotten>>
  PROVE  CheckpointsSafe'
<1>1. CheckpointsSafe
  BY DEF FilesIInv, StoresSafe
<1> QED
  BY <1>1 DEF CheckpointsSafe, Increasing

LEMMA NotesStay ==
  ASSUME FilesIInv, UNCHANGED <<content, forgotten>>
  PROVE  NotesSafe'
<1>1. NotesSafe
  BY DEF FilesIInv, StoresSafe
<1>2. \A kind \in {Note, Scratch} : Count(kind)' = Count(kind)
  BY DEF Count
<1> QED
  BY <1>1, <1>2 DEF NotesSafe

LEMMA KeptStays ==
  ASSUME FilesIInv, UNCHANGED <<content, kept, forgotten>>
  PROVE  KeptSafe'
<1>1. KeptSafe
  BY DEF FilesIInv, StoresSafe
<1> QED
  BY <1>1 DEF KeptSafe

LEMMA CallsTyped ==
  ASSUME FilesIInv, NEW c \in FileCall, NEW r \in FileCallRecord, Becomes(c, r)
  PROVE  call' \in [FileCall -> FileCallRecord] /\ \A d \in FileCall : WriteFits(call'[d])
  BY DEF FilesIInv, FilesTypeOK, Becomes

\* When every call but c still has what it has read.
LEMMA PendingOthers ==
  ASSUME FilesIInv, NEW c \in FileCall, NEW r \in FileCallRecord, Becomes(c, r), PendingSafe(r)',
         \A d \in FileCall, x \in FileCallRecord : d # c /\ x = call[d] => PendingSafe(x)'
  PROVE  WritesPending'
<1> SUFFICES ASSUME NEW d \in FileCall
             PROVE  PendingSafe(call[d])'
  BY DEF WritesPending
<1>1. CASE d = c
  BY <1>1 DEF Becomes, PendingSafe
<1>2. CASE d # c
  <2>1. PICK x \in FileCallRecord : x = call[d]
    BY DEF FilesIInv, FilesTypeOK
  <2>2. PendingSafe(x)' /\ call'[d] = x
    BY <1>2, <2>1 DEF Becomes
  <2> QED
    BY <2>2 DEF PendingSafe
<1> QED
  BY <1>1, <1>2

\* A call that ends under its mutex.
LEMMA EndBecomes ==
  ASSUME FilesIInv, NEW c \in FileCall, End(c, "ok"), call[c].at \in UnderMutex,
         UNCHANGED <<storeMutex, forgotten>>
  PROVE  \E r \in FileCallRecord :
           /\ Becomes(c, r) /\ MutexMoves(c, r) /\ PendingSafe(r)' /\ r.op = call[c].op /\ r.at = "ok"
<1>1. call \in [FileCall -> FileCallRecord] /\ call[c] \in FileCallRecord
  BY DEF FilesIInv, FilesTypeOK
<1>2. PICK r : r = [call[c] EXCEPT !.at = "ok", !.new = {}, !.file = "none"]
  OBVIOUS
<1>3. r \in FileCallRecord /\ r.at = "ok" /\ r.op = call[c].op /\ r.gen = call[c].gen
  BY <1>1, <1>2 DEF FileCallRecord
<1>4. call' = [call EXCEPT ![c] = r]
  BY <1>1, <1>2 DEF End
<1>5. Becomes(c, r)
  <2>1. WriteFits(r) /\ call[c].at # "ok"
    BY <1>3 DEF WriteFits, UnderMutex
  <2> QED
    BY <1>1, <1>3, <1>4, <2>1 DEF Becomes
<1>6. MutexMoves(c, r)
  <2>1. r.at \notin UnderMutex /\ MutexMapGrows
    BY <1>3, MapUnchanged DEF UnderMutex
  <2>2. r.gen <= storeMutex'[StoreOf(r.op)]
    BY <1>3 DEF FilesIInv, MutexesExclude
  <2> QED
    BY <2>1, <2>2 DEF MutexMoves, MutexMapGrows, End
<1>7. PendingSafe(r)'
  BY <1>3 DEF PendingSafe
<1> QED
  BY <1>3, <1>5, <1>6, <1>7

LEMMA TouchMetaKept ==
  ASSUME FilesIInv, NEW c \in FileCall, TouchMeta(c)
  PROVE  FilesIInv'
<1>1. CASE Fails(c)
  BY <1>1, CallFails DEF TouchMeta, UnderMutex
<1>2. CASE ~Fails(c)
  <2>1. /\ End(c, "ok") /\ call[c].at = "rest" /\ call[c].op \in {"SetState", "DeleteState"}
        /\ kept' = [kept EXCEPT !["state"] = kept["state"] \cup (content["state"] \cap {c})]
        /\ UNCHANGED <<focus, content, cps, saved, reports, events, logged, cuts, forgotten, storeMutex>>
    BY <1>2 DEF TouchMeta, Step, dirDisk
  <2>2. PICK r \in FileCallRecord :
          /\ Becomes(c, r) /\ MutexMoves(c, r) /\ PendingSafe(r)' /\ r.op = call[c].op /\ r.at = "ok"
    BY <2>1, EndBecomes DEF UnderMutex
  <2>3. content \in [File -> SUBSET Mark] /\ kept \in [Rewritten -> SUBSET Mark] /\ "state" \in Rewritten
        /\ "state" \in File
    BY DEF FilesIInv, FilesTypeOK, Rewritten, File
  <2>4. FilesTypeOK'
    <3>1. kept' \in [Rewritten -> SUBSET Mark]
      <4>1. content["state"] \cap {c} \in SUBSET Mark
        BY <2>3
      <4> QED
        BY <2>1, <2>3, <4>1
    <3> QED
      BY <2>1, <2>2, <3>1, CallsTyped DEF FilesIInv, FilesTypeOK
  <2>5. MutexesExclude'
    BY <2>2, MutexesKept
  <2>6. WritesPending'
    <3>1. ASSUME NEW d \in FileCall, NEW x \in FileCallRecord, d # c, x = call[d]
          PROVE  PendingSafe(x)'
      <4>1. PendingSafe(x) /\ WriteFits(x)
        BY <3>1 DEF FilesIInv, WritesPending, FilesTypeOK
      <4>2. ~(x.at = "write" /\ x.file = "state" /\ "session" \notin forgotten)
        <5> SUFFICES ASSUME x.at = "write", x.file = "state", "session" \notin forgotten
                     PROVE  FALSE
          OBVIOUS
        <5>1. StoreOf(call[d].op) = "session" /\ StoreOf(call[c].op) = "session"
          BY <2>1, <2>3, <3>1, <4>1 DEF WriteFits, OwnerOf, StoreOf
        <5>2. call[c].at \in UnderMutex /\ call[d].at \in UnderMutex
          BY <2>1, <3>1 DEF UnderMutex
        <5> QED
          BY <3>1, <5>1, <5>2, Alone
      <4>3. x.at = "write" /\ x.file \in Rewritten /\ OwnerOf(x.file) \notin forgotten =>
              kept'[x.file] \subseteq x.new
        BY <2>1, <2>3, <4>1, <4>2 DEF PendingSafe, OwnerOf
      <4>4. \A kind \in {Note, Scratch} : Count(kind)' = Count(kind)
        BY <2>1 DEF Count
      <4> QED
        BY <2>1, <4>1, <4>3, <4>4 DEF PendingSafe
    <3> QED
      BY <2>2, <3>1, PendingOthers
  <2>7. KeptSafe'
    <3>1. KeptSafe
      BY DEF FilesIInv, StoresSafe
    <3> QED
      BY <2>1, <2>3, <3>1 DEF KeptSafe
  <2>8. LogSafe'
    BY <2>1, <2>2, EventLogStays DEF Becomes
  <2>9. ReportsSafe'
    <3>1. LateSaves \subseteq LateSaves'
      BY <2>1, <2>2 DEF LateSaves, Becomes
    <3> QED
      BY <2>1, <3>1, ReportsStay
  <2> QED
    BY <2>1, <2>4, <2>5, <2>6, <2>7, <2>8, <2>9, CheckpointsStay, NotesStay DEF FilesIInv, StoresSafe
<1> QED
  BY <1>1, <1>2

\* The number of entries after a write to one of them.
LEMMA CountAfter ==
  ASSUME FilesIInv, NEW kind \in {Note, Scratch}, NEW f \in kind, NEW new,
         content' = [content EXCEPT ![f] = new]
  PROVE  Count(kind)' <= Count(kind) + 1 /\ Count(kind) \in Nat /\ Count(kind)' \in Nat
         /\ (content[f] # {} \/ new = {} => Count(kind)' <= Count(kind))
<1>1. content \in [File -> SUBSET Mark] /\ IsFiniteSet(kind) /\ kind \subseteq File
  BY NamesApart DEF FilesIInv, FilesTypeOK
<1> DEFINE S == {n \in kind : content[n] # {}}
           T == {n \in kind : content'[n] # {}}
<1>2. IsFiniteSet(S) /\ IsFiniteSet(T) /\ IsFiniteSet(S \cup {f})
  BY <1>1, FS_Subset, FS_AddElement
<1>3. T \subseteq S \cup {f} /\ (content[f] # {} \/ new = {} => T \subseteq S)
  BY <1>1
<1>4. Cardinality(S \cup {f}) \in Nat /\ Cardinality(S \cup {f}) <= Cardinality(S) + 1
      /\ Cardinality(S) \in Nat /\ Cardinality(T) \in Nat
  <2> HIDE DEF S, T
  <2>1. Cardinality(S \cup {f}) \in Nat /\ Cardinality(S) \in Nat /\ Cardinality(T) \in Nat
    BY <1>2, FS_CardinalityType
  <2>2. Cardinality(S \cup {f}) = IF f \in S THEN Cardinality(S) ELSE Cardinality(S) + 1
    BY <1>2, FS_AddElement
  <2> QED
    BY <2>1, <2>2
<1>5. Cardinality(T) <= Cardinality(S \cup {f}) /\ (T \subseteq S => Cardinality(T) <= Cardinality(S))
  BY <1>2, <1>3, FS_Subset
<1>6. Count(kind) = Cardinality(S) /\ Count(kind)' = Cardinality(T)
  BY DEF Count
<1> HIDE DEF S, T
<1> QED
  BY <1>3, <1>4, <1>5, <1>6

LEMMA CountStays ==
  ASSUME FilesIInv, NEW kind \in {Note, Scratch}, NEW f, f \notin kind, NEW new,
         content' = [content EXCEPT ![f] = new]
  PROVE  Count(kind)' = Count(kind) /\ \A n \in kind : content'[n] = content[n]
<1>1. content \in [File -> SUBSET Mark] /\ kind \subseteq File
  BY NamesApart DEF FilesIInv, FilesTypeOK
<1>2. \A n \in kind : content'[n] = content[n]
  BY <1>1
<1>3. {n \in kind : content'[n] # {}} = {n \in kind : content[n] # {}}
  BY <1>2
<1> QED
  BY <1>2, <1>3 DEF Count

\* The call whose file is replaced ends, or has its meta to touch.
LEMMA ReplacerMoves ==
  ASSUME FilesIInv, NEW c \in FileCall, ReplaceFile(c)
  PROVE  \E r \in FileCallRecord :
           Becomes(c, r) /\ MutexMoves(c, r) /\ StaysLate(c, r) /\ PendingSafe(r)'
<1>0. /\ call[c].at = "write" /\ call[c].op \notin {"AppendEvent", "Save", "SaveReport"}
      /\ UNCHANGED <<storeMutex, forgotten>> /\ call[c].at \in UnderMutex
  BY DEF ReplaceFile, Replaces, Step, UnderMutex
<1>1. CASE End(c, "ok")
  <2>1. PICK r \in FileCallRecord :
          /\ Becomes(c, r) /\ MutexMoves(c, r) /\ PendingSafe(r)' /\ r.op = call[c].op /\ r.at = "ok"
    BY <1>0, <1>1, EndBecomes
  <2>2. StaysLate(c, r)
    BY <1>0 DEF StaysLate, LateSaves
  <2> QED
    BY <2>1, <2>2
<1>2. CASE call' = [call EXCEPT ![c].at = "rest"] /\ held' = held
  <2>1. call \in [FileCall -> FileCallRecord] /\ call[c] \in FileCallRecord
    BY DEF FilesIInv, FilesTypeOK
  <2>2. PICK r : r = [call[c] EXCEPT !.at = "rest"]
    OBVIOUS
  <2>3. r \in FileCallRecord /\ r.at = "rest" /\ r.op = call[c].op /\ r.gen = call[c].gen
    BY <2>1, <2>2 DEF FileCallRecord
  <2>4. call' = [call EXCEPT ![c] = r]
    BY <1>2, <2>1, <2>2
  <2>5. Becomes(c, r)
    <3>1. WriteFits(r)
      BY <1>0, <2>3 DEF WriteFits
    <3> QED
      BY <1>0, <2>1, <2>3, <2>4, <3>1 DEF Becomes
  <2>6. MutexMoves(c, r)
    <3>1. MutexMapGrows /\ r.at \in UnderMutex
      BY <1>0, <2>3, MapUnchanged DEF UnderMutex
    <3>2. r.gen <= storeMutex'[StoreOf(r.op)]
      BY <1>0, <2>3 DEF FilesIInv, MutexesExclude
    <3> QED
      BY <1>0, <1>2, <2>3, <3>1, <3>2 DEF MutexMoves, MutexMapGrows
  <2>7. StaysLate(c, r) /\ PendingSafe(r)'
    BY <1>0, <2>3 DEF StaysLate, LateSaves, PendingSafe
  <2> QED
    BY <2>3, <2>5, <2>6, <2>7
<1> QED
  BY <1>1, <1>2 DEF ReplaceFile

LEMMA ReplaceFileKept ==
  ASSUME FilesIInv, NEW c \in FileCall, ReplaceFile(c)
  PROVE  FilesIInv'
<1>1. PICK r \in FileCallRecord : Becomes(c, r) /\ MutexMoves(c, r) /\ StaysLate(c, r) /\ PendingSafe(r)'
  BY ReplacerMoves
<1>2. /\ call[c].at = "write" /\ call[c].op \notin {"AppendEvent", "Save", "SaveReport"}
      /\ UNCHANGED <<focus, storeMutex, cps, reports, events, saved, logged, cuts, forgotten>>
      /\ call[c].at \in UnderMutex
  BY DEF ReplaceFile, Replaces, Step, UnderMutex
<1>3. PICK old \in FileCallRecord : old = call[c]
  BY DEF FilesIInv, FilesTypeOK
<1>4. PICK f, new : f = old.file /\ new = old.new
  OBVIOUS
<1>5. new \in SUBSET Mark /\ f \in File /\ old.at = "write"
  BY <1>2, <1>3, <1>4 DEF FilesIInv, FilesTypeOK, WriteFits, FileCallRecord
<1>6. /\ f \in Rewritten => StoreOf(call[c].op) = OwnerOf(f)
      /\ f \in Note \cup Scratch => StoreOf(call[c].op) = "workspace"
  BY <1>3, <1>4, <1>5 DEF FilesIInv, FilesTypeOK, WriteFits
<1>7. /\ f \in Rewritten /\ OwnerOf(f) \notin forgotten => kept[f] \subseteq new
      /\ new # {} /\ "workspace" \notin forgotten =>
           \A kind \in {Note, Scratch} : f \in kind => content[f] # {} \/ Count(kind) < MaxNotes
  BY <1>3, <1>4, <1>5 DEF FilesIInv, WritesPending, PendingSafe
<1>8. content' = [content EXCEPT ![f] = new]
  BY <1>3, <1>4 DEF ReplaceFile
<1>9. kept' = kept \/ kept' = [g \in Rewritten |-> IF g = f THEN kept[g] \cup (new \cap {c}) ELSE kept[g]]
  BY <1>3, <1>4 DEF ReplaceFile
<1>10. content \in [File -> SUBSET Mark] /\ kept \in [Rewritten -> SUBSET Mark]
  BY DEF FilesIInv, FilesTypeOK
<1>11. /\ content' \in [File -> SUBSET Mark] /\ kept' \in [Rewritten -> SUBSET Mark]
       /\ \A g \in Rewritten : g # f => kept'[g] = kept[g] /\ content'[g] = content[g]
       /\ f \in Rewritten => kept'[f] \subseteq kept[f] \cup new /\ content'[f] = new
  <2>1. content' \in [File -> SUBSET Mark]
    BY <1>5, <1>8, <1>10
  <2>2. kept' \in [Rewritten -> SUBSET Mark]
    BY <1>5, <1>9, <1>10
  <2>3. \A g \in Rewritten : g # f => kept'[g] = kept[g] /\ content'[g] = content[g]
    BY <1>8, <1>9, <1>10, NamesApart
  <2>4. f \in Rewritten => kept'[f] \subseteq kept[f] \cup new /\ content'[f] = new
    BY <1>5, <1>8, <1>9, <1>10
  <2> QED
    BY <2>1, <2>2, <2>3, <2>4
<1>12. FilesTypeOK'
  BY <1>1, <1>2, <1>11, CallsTyped DEF FilesIInv, FilesTypeOK
<1>13. MutexesExclude'
  BY <1>1, MutexesKept
<1>14. WritesPending'
  <2>1. ASSUME NEW d \in FileCall, NEW x \in FileCallRecord, d # c, x = call[d]
        PROVE  PendingSafe(x)'
    <3>1. PendingSafe(x) /\ WriteFits(x)
      BY <2>1 DEF FilesIInv, WritesPending, FilesTypeOK
    <3>2. ASSUME x.at = "write", StoreOf(x.op) = StoreOf(call[c].op), StoreOf(call[c].op) \notin forgotten
          PROVE  FALSE
      BY <1>2, <2>1, <3>2, Alone DEF UnderMutex
    <3>3. x.at = "write" /\ x.file \in Rewritten /\ OwnerOf(x.file) \notin forgotten =>
            kept'[x.file] \subseteq x.new
      <4> SUFFICES ASSUME x.at = "write", x.file \in Rewritten, OwnerOf(x.file) \notin forgotten
                   PROVE  kept'[x.file] \subseteq x.new
        OBVIOUS
      <4>1. x.file # f
        BY <1>6, <3>1, <3>2 DEF WriteFits
      <4> QED
        BY <1>11, <3>1, <4>1 DEF PendingSafe
    <3>4. ASSUME x.at = "write", x.new # {}, "workspace" \notin forgotten,
                 NEW kind \in {Note, Scratch}, x.file \in kind
          PROVE  content'[x.file] # {} \/ Count(kind)' < MaxNotes
      <4>1. f \notin kind
        BY <1>6, <3>1, <3>2, <3>4 DEF WriteFits
      <4>2. Count(kind)' = Count(kind) /\ content'[x.file] = content[x.file]
        BY <1>8, <3>4, <4>1, CountStays
      <4> QED
        BY <3>1, <3>4, <4>2 DEF PendingSafe
    <3> QED
      BY <1>2, <3>1, <3>3, <3>4 DEF PendingSafe
  <2> QED
    BY <1>1, <2>1, PendingOthers
<1>15. KeptSafe'
  <2>1. KeptSafe
    BY DEF FilesIInv, StoresSafe
  <2> QED
    BY <1>2, <1>7, <1>11, <2>1 DEF KeptSafe
<1>16. NotesSafe'
  <2> SUFFICES ASSUME "workspace" \notin forgotten, NEW kind \in {Note, Scratch}
               PROVE  Count(kind)' <= MaxNotes
    BY <1>2 DEF NotesSafe
  <2>1. Count(kind) <= MaxNotes
    BY DEF FilesIInv, StoresSafe, NotesSafe
  <2>2. CASE f \notin kind
    BY <1>8, <2>1, <2>2, CountStays
  <2>3. CASE f \in kind
    <3>1. Count(kind)' <= Count(kind) + 1 /\ Count(kind) \in Nat /\ Count(kind)' \in Nat
          /\ (content[f] # {} \/ new = {} => Count(kind)' <= Count(kind))
      BY <1>8, <2>3, CountAfter
    <3>2. content[f] # {} \/ new = {} \/ Count(kind) < MaxNotes
      BY <1>7, <2>3
    <3> QED
      BY <2>1, <3>1, <3>2, NamesApart
  <2> QED
    BY <2>2, <2>3
<1>17. LogSafe'
  BY <1>1, <1>2, EventLogStays DEF Becomes
<1>18. ReportsSafe'
  <2>1. LateSaves \subseteq LateSaves'
    BY <1>1 DEF LateSaves, Becomes, StaysLate
  <2> QED
    BY <1>2, <2>1, ReportsStay
<1> QED
  BY <1>2, <1>12, <1>13, <1>14, <1>15, <1>16, <1>17, <1>18, CheckpointsStay DEF FilesIInv, StoresSafe

\* The call whose checkpoint file is written ends with its number acknowledged.
LEMMA WriteCheckpointKept ==
  ASSUME FilesIInv, NEW c \in FileCall, WriteCheckpoint(c)
  PROVE  FilesIInv'
<1>1. /\ call[c].op = "Save" /\ call[c].at = "write" /\ End(c, "ok") /\ call[c].at \in UnderMutex
      /\ UNCHANGED <<focus, storeMutex, content, reports, events, kept, logged, cuts, forgotten>>
  BY DEF WriteCheckpoint, Step, UnderMutex
<1>2. PICK r \in FileCallRecord :
        /\ Becomes(c, r) /\ MutexMoves(c, r) /\ PendingSafe(r)' /\ r.op = call[c].op /\ r.at = "ok"
  BY <1>1, EndBecomes
<1>3. PICK old \in FileCallRecord : old = call[c]
  BY DEF FilesIInv, FilesTypeOK
<1>4. WriteFits(old) /\ PendingSafe(old) /\ old.op = "Save" /\ old.at = "write"
  BY <1>1, <1>3 DEF FilesIInv, WritesPending, FilesTypeOK
<1>5. PICK n \in Nat : old.new = {n}
  BY <1>4 DEF WriteFits
<1>6. cps' = cps \cup {[seq |-> n, by |-> c]} /\ saved' = Append(saved, n)
  <2>1. (CHOOSE k \in old.new : TRUE) = n
    BY <1>5
  <2> QED
    BY <1>3, <2>1 DEF WriteCheckpoint
<1>7. "checkpoints" \notin forgotten => \A p \in cps : p.seq < n
  BY <1>4, <1>5 DEF PendingSafe
<1>8. /\ cps \subseteq [seq : Nat, by : FileCall] /\ IsFiniteSet({p.seq : p \in cps}) /\ saved \in Seq(Nat)
      /\ CheckpointsSafe
  BY DEF FilesIInv, FilesTypeOK, StoresSafe
<1>9. PICK new : new = [seq |-> n, by |-> c]
  OBVIOUS
<1>10. new \in [seq : Nat, by : FileCall] /\ new.seq = n /\ cps' = cps \cup {new}
  BY <1>6, <1>9
<1>11. FilesTypeOK'
  <2>1. cps' \subseteq [seq : Nat, by : FileCall] /\ saved' \in Seq(Nat)
    BY <1>6, <1>8, <1>10
  <2>2. IsFiniteSet({p.seq : p \in cps'})
    <3>1. {p.seq : p \in cps'} = {p.seq : p \in cps} \cup {n}
      BY <1>10
    <3>2. IsFiniteSet({p.seq : p \in cps} \cup {n})
      BY <1>8, FS_AddElement
    <3> QED
      BY <3>1, <3>2
  <2> QED
    BY <1>1, <1>2, <2>1, <2>2, CallsTyped DEF FilesIInv, FilesTypeOK
<1>12. MutexesExclude'
  BY <1>2, MutexesKept
<1>13. WritesPending'
  <2>1. ASSUME NEW d \in FileCall, NEW x \in FileCallRecord, d # c, x = call[d]
        PROVE  PendingSafe(x)'
    <3>1. PendingSafe(x)
      BY <2>1 DEF FilesIInv, WritesPending
    <3>2. ~(x.at = "write" /\ x.op = "Save" /\ "checkpoints" \notin forgotten)
      BY <1>1, <2>1, Alone DEF UnderMutex, StoreOf
    <3>3. \A kind \in {Note, Scratch} : Count(kind)' = Count(kind)
      BY <1>1 DEF Count
    <3> QED
      BY <1>1, <3>1, <3>2, <3>3 DEF PendingSafe
  <2> QED
    BY <1>2, <2>1, PendingOthers
<1>14. CheckpointsSafe'
  <2>1. /\ Len(saved') = Len(saved) + 1 /\ Len(saved) \in Nat /\ saved'[Len(saved) + 1] = n
        /\ \A i \in 1..Len(saved) : saved'[i] = saved[i]
    BY <1>6, <1>8
  <2>2. \A p \in cps' : \E i \in 1..Len(saved') : saved'[i] = p.seq
    <3> SUFFICES ASSUME NEW p \in cps'
                 PROVE  \E i \in 1..Len(saved') : saved'[i] = p.seq
      OBVIOUS
    <3>1. CASE p \in cps
      <4>1. PICK i \in 1..Len(saved) : saved[i] = p.seq
        BY <1>8, <3>1 DEF CheckpointsSafe
      <4>2. i \in 1..Len(saved') /\ saved'[i] = p.seq
        BY <2>1, <4>1
      <4> QED
        BY <4>2
    <3>2. CASE p \notin cps
      <4>1. p.seq = n /\ Len(saved) + 1 \in 1..Len(saved')
        BY <1>10, <2>1, <3>2
      <4> QED
        BY <2>1, <4>1
    <3> QED
      BY <3>1, <3>2
  <2>3. \A i \in 1..Len(saved') : \E p \in cps' : p.seq = saved'[i]
    <3> SUFFICES ASSUME NEW i \in 1..Len(saved')
                 PROVE  \E p \in cps' : p.seq = saved'[i]
      OBVIOUS
    <3>1. CASE i \in 1..Len(saved)
      BY <1>8, <1>10, <2>1, <3>1 DEF CheckpointsSafe
    <3>2. CASE i = Len(saved) + 1
      BY <1>10, <2>1, <3>2
    <3> QED
      BY <2>1, <3>1, <3>2
  <2>4. ASSUME "checkpoints" \notin forgotten
        PROVE  Increasing(saved') /\ \A p, q \in cps' : p.seq = q.seq => p = q
    <3>1. Increasing(saved) /\ \A p, q \in cps : p.seq = q.seq => p = q
      BY <1>8, <2>4 DEF CheckpointsSafe
    <3>2. \A p \in cps : p.seq < n /\ p.seq \in Nat
      BY <1>7, <1>8, <2>4
    <3>3. \A i \in 1..Len(saved) : saved[i] < n
      BY <1>8, <3>2 DEF CheckpointsSafe
    <3>4. Increasing(saved')
      <4> SUFFICES ASSUME NEW i \in DOMAIN saved', NEW j \in DOMAIN saved', i < j
                   PROVE  saved'[i] < saved'[j]
        BY DEF Increasing
      <4>1. DOMAIN saved' = 1..(Len(saved) + 1) /\ DOMAIN saved = 1..Len(saved)
        BY <1>6, <1>8
      <4>2. i \in 1..Len(saved) /\ (j \in 1..Len(saved) \/ j = Len(saved) + 1)
        BY <2>1, <4>1
      <4>3. CASE j \in 1..Len(saved)
        BY <2>1, <3>1, <4>1, <4>2, <4>3 DEF Increasing
      <4>4. CASE j = Len(saved) + 1
        BY <2>1, <3>3, <4>2, <4>4
      <4> QED
        BY <4>2, <4>3, <4>4
    <3>5. \A p, q \in cps' : p.seq = q.seq => p = q
      <4> SUFFICES ASSUME NEW p \in cps', NEW q \in cps', p.seq = q.seq
                   PROVE  p = q
        OBVIOUS
      <4>1. CASE p \in cps /\ q \in cps
        BY <3>1, <4>1
      <4>2. CASE p = new \/ q = new
        <5>1. ~(n < n)
          OBVIOUS
        <5>2. p = new /\ q = new
          BY <1>10, <3>2, <4>2, <5>1
        <5> QED
          BY <5>2
      <4> QED
        BY <1>10, <4>1, <4>2
    <3> QED
      BY <3>4, <3>5
  <2> QED
    BY <1>1, <2>2, <2>3, <2>4 DEF CheckpointsSafe
<1>15. LogSafe'
  BY <1>1, <1>2, EventLogStays DEF Becomes
<1>16. ReportsSafe'
  <2>1. LateSaves \subseteq LateSaves'
    BY <1>1, <1>2 DEF LateSaves, Becomes
  <2> QED
    BY <1>1, <2>1, ReportsStay
<1> QED
  BY <1>1, <1>11, <1>12, <1>13, <1>14, <1>15, <1>16, KeptStays, NotesStay DEF FilesIInv, StoresSafe

\* The log grows by one line, or its open line by one event.
LEMMA AppendEventKept ==
  ASSUME FilesIInv, NEW c \in FileCall, AppendEvent(c)
  PROVE  FilesIInv'
<1>1. /\ call[c].op = "AppendEvent" /\ call[c].at = "write" /\ End(c, "ok") /\ call[c].at \in UnderMutex
      /\ UNCHANGED <<focus, storeMutex, content, cps, reports, kept, saved, cuts, forgotten>>
      /\ events' = Appended(c) /\ logged' = Append(logged, c)
  BY DEF AppendEvent, Step, UnderMutex
<1>2. PICK r \in FileCallRecord :
        /\ Becomes(c, r) /\ MutexMoves(c, r) /\ PendingSafe(r)' /\ r.op = call[c].op /\ r.at = "ok"
  BY <1>1, EndBecomes
<1>3. events \in Seq(EventLine) /\ logged \in Seq(FileCall) /\ cuts \in Nat /\ LogSafe
  BY DEF FilesIInv, FilesTypeOK, StoresSafe
<1>4. /\ Len(logged') = Len(logged) + 1 /\ Len(logged) \in Nat /\ Len(events) \in Nat
      /\ logged' \in Seq(FileCall) /\ logged'[Len(logged) + 1] = c
      /\ \A i \in 1..Len(logged) : logged'[i] = logged[i]
  BY <1>1, <1>3
<1>12. PICK m \in Nat, k \in Nat : m = Len(logged) /\ k = Len(events)
  BY <1>4
<1>13. (k = m \/ k = m + 1) /\ DOMAIN events = 1..k
  <2>1. m <= k /\ k <= m + 1
    BY <1>3, <1>12 DEF LogSafe
  <2>2. DOMAIN events = 1..k
    BY <1>3, <1>12
  <2> QED
    BY <2>1, <2>2
<1>14. k = m + 1 => events[k] = Line(<<>>, TRUE, TRUE)
  BY <1>3, <1>12 DEF LogSafe
<1>5. PICK last \in EventLine : last.es = <<c>> /\ last.open = FALSE
                                /\ last.bad = (Len(events) = Len(logged) + 1)
  <2>1. Line(<<c>>, TRUE, FALSE) \in EventLine /\ Line(<<c>>, FALSE, FALSE) \in EventLine
    BY DEF EventLine, Line
  <2>2. CASE Len(events) = Len(logged) + 1
    BY <2>1, <2>2 DEF Line
  <2>3. CASE Len(events) # Len(logged) + 1
    BY <2>1, <2>3 DEF Line
  <2> QED
    BY <2>2, <2>3
<1>6. /\ events' \in Seq(EventLine) /\ Len(events') = Len(logged) + 1 /\ events'[Len(logged) + 1] = last
      /\ \A i \in 1..Len(logged) : events'[i] = events[i]
  <2>1. CASE Len(events) = Len(logged) + 1
    <3>1. events[Len(events)] = Line(<<>>, TRUE, TRUE) /\ Len(events) \in 1..Len(events)
      <4>1. k = m + 1
        BY <1>12, <2>1
      <4>2. k \in 1..k
        BY <4>1
      <4> QED
        BY <1>12, <1>14, <4>1, <4>2
    <3>2. events' = [events EXCEPT ![Len(events)] = Line(Append(events[Len(events)].es, c), TRUE, FALSE)]
      <4>1. events # <<>> /\ events[Len(events)].open
        BY <1>3, <2>1, <1>4, <3>1 DEF Line
      <4> QED
        BY <1>1, <4>1 DEF Appended
    <3>3. Line(Append(events[Len(events)].es, c), TRUE, FALSE) = last
      <4>1. Append(events[Len(events)].es, c) = <<c>>
        BY <3>1 DEF Line
      <4>2. last = [es |-> <<c>>, bad |-> TRUE, open |-> FALSE]
        BY <1>5, <2>1 DEF EventLine
      <4> QED
        BY <4>1, <4>2 DEF Line
    <3>4. PICK e \in Seq(EventLine), w \in Nat : e = events /\ w = Len(logged) /\ Len(e) = w + 1
      BY <1>3, <1>4, <2>1
    <3>5. events' = [e EXCEPT ![w + 1] = last]
      BY <3>2, <3>3, <3>4
    <3>6. /\ events' \in Seq(EventLine) /\ Len(events') = w + 1 /\ events'[w + 1] = last
          /\ \A i \in 1..w : events'[i] = e[i]
      BY <3>4, <3>5
    <3> QED
      BY <3>4, <3>6
  <2>2. CASE Len(events) # Len(logged) + 1
    <3>1. Len(events) = Len(logged)
      BY <1>3, <1>4, <2>2 DEF LogSafe
    <3>2. events' = Append(events, Line(<<c>>, FALSE, FALSE))
      <4>1. ~(events # <<>> /\ events[Len(events)].open)
        <5> SUFFICES ASSUME events # <<>>
                     PROVE  ~events[Len(events)].open
          OBVIOUS
        <5>1. Len(events) \in 1..Len(logged)
          BY <1>3, <1>4, <3>1
        <5> QED
          BY <1>3, <5>1 DEF LogSafe
      <4> QED
        BY <1>1, <4>1 DEF Appended
    <3>3. Line(<<c>>, FALSE, FALSE) = last
      <4>1. last = [es |-> <<c>>, bad |-> FALSE, open |-> FALSE]
        BY <1>5, <2>2 DEF EventLine
      <4> QED
        BY <4>1 DEF Line
    <3>4. PICK e \in Seq(EventLine), w \in Nat : e = events /\ w = Len(logged) /\ Len(e) = w
      BY <1>3, <1>4, <3>1
    <3>5. events' = Append(e, last)
      BY <3>2, <3>3, <3>4
    <3>6. /\ events' \in Seq(EventLine) /\ Len(events') = w + 1 /\ events'[w + 1] = last
          /\ \A i \in 1..w : events'[i] = e[i]
      BY <3>4, <3>5
    <3> QED
      BY <3>4, <3>6
  <2> QED
    BY <2>1, <2>2
<1>7. FilesTypeOK'
  BY <1>1, <1>2, <1>4, <1>6, CallsTyped DEF FilesIInv, FilesTypeOK
<1>8. MutexesExclude'
  BY <1>2, MutexesKept
<1>9. WritesPending'
  <2>1. ASSUME NEW d \in FileCall, NEW x \in FileCallRecord, d # c, x = call[d]
        PROVE  PendingSafe(x)'
    <3>1. PendingSafe(x)
      BY <2>1 DEF FilesIInv, WritesPending
    <3>2. \A kind \in {Note, Scratch} : Count(kind)' = Count(kind)
      BY <1>1 DEF Count
    <3> QED
      BY <1>1, <3>1, <3>2 DEF PendingSafe
  <2> QED
    BY <1>2, <2>1, PendingOthers
<1>10. LogSafe'
  <2>1. \A i \in 1..Len(logged) : call[logged[i]].at = "ok" /\ logged[i] # c
    BY <1>1, <1>3 DEF LogSafe
  <2>2. \A i \in 1..Len(logged') :
          events'[i].es = <<logged'[i]>> /\ ~events'[i].open /\ call'[logged'[i]].at = "ok"
    <3> SUFFICES ASSUME NEW i \in 1..Len(logged')
                 PROVE  events'[i].es = <<logged'[i]>> /\ ~events'[i].open /\ call'[logged'[i]].at = "ok"
      OBVIOUS
    <3>1. CASE i \in 1..Len(logged)
      <4>1. logged[i] \in FileCall
        BY <1>3, <3>1
      <4>2. call'[logged[i]].at = "ok"
        BY <1>2, <2>1, <3>1, <4>1 DEF Becomes
      <4>3. events[i].es = <<logged[i]>> /\ ~events[i].open
        BY <1>3, <3>1 DEF LogSafe
      <4> QED
        BY <1>4, <1>6, <3>1, <4>2, <4>3
    <3>2. CASE i = Len(logged) + 1
      BY <1>2, <1>4, <1>5, <1>6, <3>2 DEF Becomes
    <3> QED
      BY <1>4, <3>1, <3>2
  <2>3. \A i, j \in 1..Len(logged') : logged'[i] = logged'[j] => i = j
    <3> SUFFICES ASSUME NEW i \in 1..Len(logged'), NEW j \in 1..Len(logged'), logged'[i] = logged'[j]
                 PROVE  i = j
      OBVIOUS
    <3>1. (i \in 1..Len(logged) \/ i = Len(logged) + 1) /\ (j \in 1..Len(logged) \/ j = Len(logged) + 1)
      BY <1>4
    <3>2. \A l \in 1..Len(logged) : logged'[l] = logged[l] /\ logged'[l] # c
      BY <1>4, <2>1
    <3> QED
      BY <1>3, <1>4, <3>1, <3>2 DEF LogSafe
  <2>4. BadLines' = BadLines
    <3>1. \A i \in DOMAIN events' : events'[i].bad <=> i \in DOMAIN events /\ events[i].bad
      <4> SUFFICES ASSUME NEW i \in DOMAIN events'
                   PROVE  events'[i].bad <=> i \in DOMAIN events /\ events[i].bad
        OBVIOUS
      <4>1. i \in 1..Len(logged) \/ i = Len(logged) + 1
        BY <1>4, <1>6
      <4>2. CASE i \in 1..Len(logged)
        <5>1. i \in DOMAIN events
          BY <1>3, <1>4, <4>2 DEF LogSafe
        <5> QED
          BY <1>6, <4>2, <5>1
      <4>3. CASE i = Len(logged) + 1
        <5>1. events'[i].bad = (Len(events) = Len(logged) + 1)
          BY <1>5, <1>6, <4>3
        <5>2. CASE Len(events) = Len(logged) + 1
          <6>1. events[i] = Line(<<>>, TRUE, TRUE) /\ i \in DOMAIN events
            <7>1. k = m + 1 /\ i = k
              BY <1>12, <4>3, <5>2
            <7>2. i \in 1..k
              BY <7>1
            <7> QED
              BY <1>13, <1>14, <7>1, <7>2
          <6>2. events[i].bad = TRUE
            BY <6>1 DEF Line
          <6> QED
            BY <5>1, <5>2, <6>1, <6>2
        <5>3. CASE Len(events) # Len(logged) + 1
          <6>1. i \notin DOMAIN events
            <7>1. k = m /\ i = m + 1
              BY <1>12, <1>13, <4>3, <5>3
            <7> QED
              BY <1>13, <7>1
          <6> QED
            BY <5>1, <5>3, <6>1
        <5> QED
          BY <5>2, <5>3
      <4> QED
        BY <4>1, <4>2, <4>3
    <3>2. DOMAIN events \subseteq DOMAIN events'
      BY <1>3, <1>4, <1>6 DEF LogSafe
    <3> QED
      BY <3>1, <3>2 DEF BadLines
  <2>5. Len(logged') <= Len(events') /\ Len(events') <= Len(logged') + 1 /\ Len(events') # Len(logged') + 1
    BY <1>4, <1>6
  <2>6. Cardinality(BadLines') <= cuts'
    <3>1. Cardinality(BadLines) <= cuts
      BY <1>3 DEF LogSafe
    <3> QED
      BY <1>1, <2>4, <3>1
  <2> QED
    BY <2>2, <2>3, <2>5, <2>6 DEF LogSafe
<1>11. ReportsSafe'
  <2>1. LateSaves \subseteq LateSaves'
    BY <1>1, <1>2 DEF LateSaves, Becomes
  <2> QED
    BY <1>1, <2>1, ReportsStay
<1> QED
  BY <1>1, <1>7, <1>8, <1>9, <1>10, <1>11, KeptStays, NotesStay, CheckpointsStay DEF FilesIInv, StoresSafe

\* What is cut off leaves a line without its end, or nothing more on one.
LEMMA CutOffSafe ==
  ASSUME FilesIInv, events' = CutOff, UNCHANGED logged, cuts' = cuts + 1,
         \A d \in FileCall : call[d].at = "ok" => call'[d].at = "ok"
  PROVE  LogSafe' /\ events' \in Seq(EventLine) /\ cuts' \in Nat
<1>1. events \in Seq(EventLine) /\ logged \in Seq(FileCall) /\ cuts \in Nat /\ LogSafe
  BY DEF FilesIInv, FilesTypeOK, StoresSafe
<1>2. PICK m \in Nat, k \in Nat : m = Len(logged) /\ k = Len(events)
  BY <1>1
<1>3. (k = m \/ k = m + 1) /\ DOMAIN events = 1..k
  <2>1. m <= k /\ k <= m + 1
    BY <1>1, <1>2 DEF LogSafe
  <2>2. DOMAIN events = 1..k
    BY <1>1, <1>2
  <2> QED
    BY <2>1, <2>2
<1>4. k = m + 1 => events[k] = Line(<<>>, TRUE, TRUE)
  BY <1>1, <1>2 DEF LogSafe
<1>5. \A i \in 1..m : events[i].es = <<logged[i]>> /\ ~events[i].open /\ call[logged[i]].at = "ok"
  BY <1>1, <1>2 DEF LogSafe
<1>6. PICK tail \in EventLine : tail = Line(<<>>, TRUE, TRUE)
  <2>1. Line(<<>>, TRUE, TRUE) \in EventLine
    BY DEF EventLine, Line
  <2> QED
    BY <2>1
<1>13. events # <<>> <=> k # 0
  <2>1. PICK e \in Seq(EventLine) : e = events /\ Len(e) = k
    BY <1>1, <1>2
  <2>2. e # <<>> <=> k # 0
    BY <2>1
  <2> QED
    BY <2>1, <2>2
<1>7. /\ events' \in Seq(EventLine) /\ Len(events') = m + 1 /\ events'[m + 1] = tail
      /\ \A i \in 1..m : events'[i] = events[i]
  <2>1. CASE k = m + 1
    <3>1. events # <<>> /\ events[k].open
      <4>1. events # <<>>
        BY <1>13, <2>1
      <4>2. events[k].open
        BY <1>4, <2>1 DEF Line
      <4> QED
        BY <4>1, <4>2
    <3>2. events' = events
      BY <1>2, <3>1 DEF CutOff
    <3> QED
      BY <1>1, <1>2, <1>4, <1>6, <2>1, <3>2
  <2>2. CASE k = m
    <3>1. ~(events # <<>> /\ events[k].open)
      <4> SUFFICES ASSUME events # <<>>
                   PROVE  ~events[k].open
        OBVIOUS
      <4>1. k \in 1..m
        BY <1>13, <2>2
      <4> QED
        BY <1>5, <4>1
    <3>2. events' = Append(events, tail)
      BY <1>2, <1>6, <3>1 DEF CutOff
    <3>3. PICK e \in Seq(EventLine) : e = events /\ Len(e) = m
      BY <1>1, <1>2, <2>2
    <3>4. events' = Append(e, tail)
      BY <3>2, <3>3
    <3>5. /\ events' \in Seq(EventLine) /\ Len(events') = m + 1 /\ events'[m + 1] = tail
          /\ \A i \in 1..m : events'[i] = e[i]
      BY <3>3, <3>4
    <3> QED
      BY <3>3, <3>5
  <2> QED
    BY <1>3, <2>1, <2>2
<1>8. \A i \in 1..m : events'[i].es = <<logged[i]>> /\ ~events'[i].open /\ call'[logged[i]].at = "ok"
  <2> SUFFICES ASSUME NEW i \in 1..m
               PROVE  events'[i].es = <<logged[i]>> /\ ~events'[i].open /\ call'[logged[i]].at = "ok"
    OBVIOUS
  <2>1. logged[i] \in FileCall /\ call[logged[i]].at = "ok"
    BY <1>1, <1>2, <1>5
  <2> QED
    BY <1>5, <1>7, <2>1
<1>9. Cardinality(BadLines') <= cuts'
  <2>1. BadLines' \subseteq BadLines \cup {m + 1}
    <3> SUFFICES ASSUME NEW i \in BadLines', i # m + 1
                 PROVE  i \in BadLines
      OBVIOUS
    <3>1. i \in 1..m /\ events'[i].bad
      BY <1>7 DEF BadLines
    <3>2. i \in 1..k
      BY <1>3, <3>1
    <3> QED
      BY <1>3, <1>7, <3>1, <3>2 DEF BadLines
  <2>2. IsFiniteSet(BadLines) /\ BadLines \subseteq 1..k
    <3>1. BadLines \subseteq 1..k
      BY <1>3 DEF BadLines
    <3>2. \A a, b \in Int : IsFiniteSet(a..b)
      BY FS_Interval
    <3>3. IsFiniteSet(1..k)
      BY <3>2
    <3> QED
      BY <3>1, <3>3, FS_Subset
  <2>3. Cardinality(BadLines) <= cuts
    BY <1>1 DEF LogSafe
  <2> HIDE DEF BadLines
  <2>4. IsFiniteSet(BadLines \cup {m + 1})
    BY <2>2, FS_AddElement
  <2>5. Cardinality(BadLines \cup {m + 1}) = IF m + 1 \in BadLines THEN Cardinality(BadLines) ELSE Cardinality(BadLines) + 1
    BY <2>2, FS_AddElement
  <2>6. IsFiniteSet(BadLines') /\ Cardinality(BadLines') <= Cardinality(BadLines \cup {m + 1})
    BY <2>1, <2>4, FS_Subset
  <2>7. Cardinality(BadLines) \in Nat /\ Cardinality(BadLines') \in Nat
    BY <2>2, <2>6, FS_CardinalityType
  <2> QED
    BY <1>1, <2>3, <2>5, <2>6, <2>7
<1>10. Len(logged') = m /\ logged' = logged /\ cuts' \in Nat
  BY <1>1, <1>2
<1>11. \A i, j \in 1..m : logged[i] = logged[j] => i = j
  BY <1>1, <1>2 DEF LogSafe
<1>12. Len(logged') <= Len(events') /\ Len(events') <= Len(logged') + 1
  BY <1>7, <1>10
<1> QED
  BY <1>6, <1>7, <1>8, <1>9, <1>10, <1>11, <1>12 DEF LogSafe

LEMMA AppendCutOffKept ==
  ASSUME FilesIInv, NEW c \in FileCall, AppendCutOff(c)
  PROVE  FilesIInv'
<1>1. /\ call[c].op = "AppendEvent" /\ call[c].at = "write" /\ End(c, "error")
      /\ UNCHANGED <<focus, storeMutex, content, cps, reports, kept, saved, logged, forgotten>>
      /\ events' = CutOff /\ cuts' = cuts + 1
  BY DEF AppendCutOff, Step
<1>2. call \in [FileCall -> FileCallRecord] /\ call[c] \in FileCallRecord
  BY DEF FilesIInv, FilesTypeOK
<1>3. PICK r : r = [call[c] EXCEPT !.at = "error", !.new = {}, !.file = "none"]
  OBVIOUS
<1>4. r \in FileCallRecord /\ r.at = "error" /\ r.op = call[c].op /\ r.gen = call[c].gen
  BY <1>2, <1>3 DEF FileCallRecord
<1>5. call' = [call EXCEPT ![c] = r]
  BY <1>1, <1>2, <1>3 DEF End
<1>6. Becomes(c, r)
  BY <1>1, <1>2, <1>4, <1>5 DEF Becomes, WriteFits
<1>7. MutexMoves(c, r)
  <2>1. r.at \notin UnderMutex /\ MutexMapGrows
    BY <1>1, <1>4, MapUnchanged DEF UnderMutex
  <2>2. r.gen <= storeMutex'[StoreOf(r.op)]
    BY <1>1, <1>4 DEF FilesIInv, MutexesExclude
  <2>3. call[c].at \in UnderMutex /\ held' = held \ {MyLock(c)}
    BY <1>1 DEF UnderMutex, End
  <2> QED
    BY <2>1, <2>2, <2>3 DEF MutexMoves, MutexMapGrows
<1>8. LogSafe' /\ events' \in Seq(EventLine) /\ cuts' \in Nat
  <2>1. \A d \in FileCall : call[d].at = "ok" => call'[d].at = "ok"
    BY <1>6 DEF Becomes
  <2> QED
    BY <1>1, <2>1, CutOffSafe
<1>9. FilesTypeOK'
  BY <1>1, <1>4, <1>6, <1>8, CallsTyped DEF FilesIInv, FilesTypeOK
<1>10. MutexesExclude'
  BY <1>4, <1>6, <1>7, MutexesKept
<1>11. WritesPending'
  <2>1. ASSUME NEW d \in FileCall, NEW x \in FileCallRecord, d # c, x = call[d]
        PROVE  PendingSafe(x)'
    <3>1. PendingSafe(x)
      BY <2>1 DEF FilesIInv, WritesPending
    <3>2. \A kind \in {Note, Scratch} : Count(kind)' = Count(kind)
      BY <1>1 DEF Count
    <3> QED
      BY <1>1, <3>1, <3>2 DEF PendingSafe
  <2>2. PendingSafe(r)'
    BY <1>4 DEF PendingSafe
  <2> QED
    BY <1>4, <1>6, <2>1, <2>2, PendingOthers
<1>12. ReportsSafe'
  <2>1. LateSaves \subseteq LateSaves'
    BY <1>1, <1>6 DEF LateSaves, Becomes
  <2> QED
    BY <1>1, <2>1, ReportsStay
<1> QED
  BY <1>1, <1>8, <1>9, <1>10, <1>11, <1>12, KeptStays, NotesStay, CheckpointsStay DEF FilesIInv, StoresSafe

LEMMA WriteReportKept ==
  ASSUME FilesIInv, NEW c \in FileCall, WriteReport(c)
  PROVE  FilesIInv'
<1>1. /\ call[c].op = "SaveReport" /\ call[c].at = "write" /\ call[c].at \in UnderMutex
      /\ UNCHANGED <<focus, storeMutex, content, cps, events, kept, saved, logged, cuts, forgotten, held>>
      /\ reports' = reports \cup {Max(call[c].new)} /\ call' = [call EXCEPT ![c].at = "rest"]
  BY DEF WriteReport, Step, UnderMutex, history
<1>2. call \in [FileCall -> FileCallRecord] /\ call[c] \in FileCallRecord /\ reports \subseteq Nat
      /\ IsFiniteSet(reports) /\ "reports" \notin forgotten
  BY DEF FilesIInv, FilesTypeOK, MutexesExclude
<1>3. PICK r : r = [call[c] EXCEPT !.at = "rest"]
  OBVIOUS
<1>4. /\ r \in FileCallRecord /\ r.at = "rest" /\ r.op = call[c].op /\ r.gen = call[c].gen
      /\ r.new = call[c].new
  BY <1>2, <1>3 DEF FileCallRecord
<1>5. call' = [call EXCEPT ![c] = r]
  BY <1>1, <1>2, <1>3
<1>6. PICK old \in FileCallRecord : old = call[c] /\ WriteFits(old) /\ PendingSafe(old)
  BY <1>2 DEF FilesIInv, FilesTypeOK, WritesPending
<1>7. r.new \subseteq Nat /\ IsFiniteSet(r.new) /\ r.new # {} /\ reports \subseteq r.new
  BY <1>1, <1>4, <1>6 DEF WriteFits, PendingSafe
<1>8. PICK n \in r.new : n = Max(r.new)
  BY <1>7, GreatestNumber
<1>9. reports' = reports \cup {n}
  BY <1>1, <1>4, <1>8
<1>10. Becomes(c, r)
  <2>1. WriteFits(r)
    BY <1>1, <1>4, <1>7 DEF WriteFits
  <2> QED
    BY <1>1, <1>2, <1>4, <1>5, <2>1 DEF Becomes
<1>11. MutexMoves(c, r)
  <2>1. MutexMapGrows /\ r.at \in UnderMutex
    BY <1>1, <1>4, MapUnchanged DEF UnderMutex
  <2>2. r.gen <= storeMutex'[StoreOf(r.op)]
    BY <1>1, <1>4 DEF FilesIInv, MutexesExclude
  <2> QED
    BY <1>1, <1>4, <2>1, <2>2 DEF MutexMoves, MutexMapGrows
<1>12. FilesTypeOK'
  <2>1. reports' \subseteq Nat /\ IsFiniteSet(reports')
    BY <1>2, <1>7, <1>9, FS_AddElement
  <2> QED
    BY <1>1, <1>4, <1>10, <2>1, CallsTyped DEF FilesIInv, FilesTypeOK
<1>13. MutexesExclude'
  BY <1>4, <1>10, <1>11, MutexesKept
<1>14. WritesPending'
  <2>1. ASSUME NEW d \in FileCall, NEW x \in FileCallRecord, d # c, x = call[d]
        PROVE  PendingSafe(x)'
    <3>1. PendingSafe(x)
      BY <2>1 DEF FilesIInv, WritesPending
    <3>2. ~(x.at \in {"write", "rest"} /\ x.op = "SaveReport")
      BY <1>1, <1>2, <2>1, Alone DEF UnderMutex, StoreOf
    <3>3. \A kind \in {Note, Scratch} : Count(kind)' = Count(kind)
      BY <1>1 DEF Count
    <3> QED
      BY <1>1, <3>1, <3>2, <3>3 DEF PendingSafe
  <2>2. PendingSafe(r)'
    BY <1>4, <1>7, <1>9 DEF PendingSafe
  <2> QED
    BY <1>4, <1>10, <2>1, <2>2, PendingOthers
<1>15. ReportsSafe'
  <2>1. c \in LateSaves'
    BY <1>1, <1>4, <1>10 DEF LateSaves, Becomes
  <2> QED
    BY <2>1 DEF ReportsSafe
<1>16. LogSafe'
  BY <1>1, <1>10, EventLogStays DEF Becomes
<1> QED
  BY <1>1, <1>12, <1>13, <1>14, <1>15, <1>16, KeptStays, NotesStay, CheckpointsStay DEF FilesIInv, StoresSafe

\* The numbers with at most m numbers of the set from them on are at most m.
LEMMA TopNumbers ==
  ASSUME NEW all, all \subseteq Nat, IsFiniteSet(all), NEW m \in Nat
  PROVE  LET top == {n \in all : ~(Cardinality({k \in all : k >= n}) > m)}
         IN  IsFiniteSet(top) /\ Cardinality(top) <= m
<1> DEFINE top == {n \in all : ~(Cardinality({k \in all : k >= n}) > m)}
<1> SUFFICES IsFiniteSet(top) /\ Cardinality(top) <= m
  OBVIOUS
<1>1. IsFiniteSet(top)
  BY FS_Subset
<1>2. CASE top = {}
  <2> HIDE DEF top
  <2>1. Cardinality(top) = 0
    BY <1>2, FS_EmptySet
  <2> QED
    BY <1>1, <2>1
<1>3. CASE top # {}
  <2>1. top \subseteq Nat
    OBVIOUS
  <2>2. PICK x \in top : \A y \in top : x <= y
    <3> HIDE DEF top
    <3> QED
      BY <1>3, <2>1, LeastNumber
  <2> DEFINE up == {k \in all : k >= x}
  <2>3. IsFiniteSet(up)
    BY FS_Subset
  <2>4. top \subseteq up
    BY <2>2
  <2>5. Cardinality(up) \in Nat /\ ~(Cardinality(up) > m)
    <3>1. ~(Cardinality(up) > m)
      BY <2>2
    <3> HIDE DEF up
    <3> QED
      BY <2>3, <3>1, FS_CardinalityType
  <2> HIDE DEF top, up
  <2>6. Cardinality(top) <= Cardinality(up) /\ Cardinality(top) \in Nat
    BY <1>1, <2>3, <2>4, FS_Subset, FS_CardinalityType
  <2>7. Cardinality(top) <= m
    BY <2>5, <2>6
  <2> QED
    BY <1>1, <2>7
<1> QED
  BY <1>1, <1>2, <1>3

LEMMA TrimReportsKept ==
  ASSUME FilesIInv, NEW c \in FileCall, TrimReports(c)
  PROVE  FilesIInv'
<1>1. /\ call[c].op = "SaveReport" /\ call[c].at = "rest" /\ call[c].at \in UnderMutex
      /\ UNCHANGED <<focus, storeMutex, content, cps, events, kept, saved, logged, cuts, forgotten>>
  BY DEF TrimReports, Step, UnderMutex, history
<1>2. CASE End(c, "error") /\ UNCHANGED reports
  <2>1. Shrinks /\ MutexMapGrows
    BY <1>1, <1>2, NothingShrinks, MapUnchanged
  <2> QED
    BY <1>1, <1>2, <2>1, CallEnds
<1>3. CASE ~(End(c, "error") /\ UNCHANGED reports)
  <2>1. PICK all : all = call[c].new
    OBVIOUS
  <2>2. all \subseteq Nat /\ IsFiniteSet(all) /\ reports \subseteq all
    BY <1>1, <2>1 DEF FilesIInv, FilesTypeOK, WritesPending, PendingSafe, WriteFits
  <2>3. End(c, "ok") /\ reports' = reports \ {n \in all : Cardinality({k \in all : k >= n}) > MaxReports}
    BY <1>3, <2>1 DEF TrimReports
  <2>4. PICK r \in FileCallRecord :
          /\ Becomes(c, r) /\ MutexMoves(c, r) /\ PendingSafe(r)' /\ r.op = call[c].op /\ r.at = "ok"
    BY <1>1, <2>3, EndBecomes
  <2>5. reports' \subseteq reports /\ IsFiniteSet(reports') /\ Cardinality(reports') <= MaxReports
    <3> DEFINE top == {n \in all : ~(Cardinality({k \in all : k >= n}) > MaxReports)}
    <3>1. MaxReports \in Nat
      BY FilesAssumption
    <3>2. IsFiniteSet(top) /\ Cardinality(top) <= MaxReports
      BY <2>2, <3>1, TopNumbers
    <3>3. reports' \subseteq top /\ reports' \subseteq reports
      BY <2>2, <2>3
    <3> HIDE DEF top
    <3>4. IsFiniteSet(reports') /\ Cardinality(reports') <= Cardinality(top)
      BY <3>2, <3>3, FS_Subset
    <3>5. Cardinality(reports') \in Nat /\ Cardinality(top) \in Nat
      BY <3>2, <3>4, FS_CardinalityType
    <3> QED
      BY <3>1, <3>2, <3>3, <3>4, <3>5
  <2>6. FilesTypeOK'
    <3>1. reports' \subseteq Nat
      BY <2>2, <2>5
    <3> QED
      BY <1>1, <2>4, <2>5, <3>1, CallsTyped DEF FilesIInv, FilesTypeOK
  <2>7. MutexesExclude'
    BY <2>4, MutexesKept
  <2>8. WritesPending'
    <3>1. ASSUME NEW d \in FileCall, NEW x \in FileCallRecord, d # c, x = call[d]
          PROVE  PendingSafe(x)'
      <4>1. PendingSafe(x)
        BY <3>1 DEF FilesIInv, WritesPending
      <4>2. \A kind \in {Note, Scratch} : Count(kind)' = Count(kind)
        BY <1>1 DEF Count
      <4> QED
        BY <1>1, <2>5, <4>1, <4>2 DEF PendingSafe
    <3> QED
      BY <2>4, <3>1, PendingOthers
  <2>9. ReportsSafe'
    BY <2>5 DEF ReportsSafe
  <2>10. LogSafe'
    BY <1>1, <2>4, EventLogStays DEF Becomes
  <2> QED
    BY <1>1, <2>6, <2>7, <2>8, <2>9, <2>10, KeptStays, NotesStay, CheckpointsStay DEF FilesIInv, StoresSafe
<1> QED
  BY <1>2, <1>3

\* After a crash no call has read anything.
LEMMA CrashKept ==
  ASSUME FilesIInv, CrashFiles
  PROVE  FilesIInv'
<1>1. /\ UNCHANGED <<focus, content, cps, reports, storeMutex, kept, saved, logged, forgotten>> /\ held' = {}
      /\ UNCHANGED <<events, cuts>> \/ (events' = CutOff /\ cuts' = cuts + 1)
  BY DEF CrashFiles
<1>2. call \in [FileCall -> FileCallRecord] /\ \A s \in Store : storeMutex[s] \in Nat
  BY DEF FilesIInv, FilesTypeOK
<1>3. PICK no : no = Nothing
  OBVIOUS
<1>4. no \in FileCallRecord /\ no.gen = 0
  BY <1>3 DEF Nothing, FileCallRecord
<1>5. \A c \in FileCall :
        \/ call[c].at \in {"unused", "ok", "error", "dead"} /\ call'[c] = call[c]
        \/ /\ call[c].at \notin {"unused", "ok", "error", "dead"}
           /\ call'[c] = [no EXCEPT !.op = call[c].op, !.at = "dead"]
  BY <1>2, <1>3 DEF CrashFiles, FileCallRecord
<1>6. \A c \in FileCall : call[c].at \in {"unused", "ok", "error", "dead"} => call'[c] = call[c]
  BY <1>5
<1>7. ASSUME NEW c \in FileCall, call[c].at \notin {"unused", "ok", "error", "dead"}
      PROVE  call'[c] \in FileCallRecord /\ call'[c].at = "dead" /\ call'[c].op = call[c].op /\ call'[c].gen = 0
  <2>1. call[c].op \in Operation \cup {"none"}
    BY <1>2 DEF FileCallRecord
  <2>2. PICK r : r = [no EXCEPT !.op = call[c].op, !.at = "dead"]
    OBVIOUS
  <2>3. r \in FileCallRecord /\ r.at = "dead" /\ r.op = call[c].op /\ r.gen = 0
    BY <1>4, <2>1, <2>2 DEF FileCallRecord
  <2> QED
    BY <1>5, <1>7, <2>2, <2>3
<1>8. \A c \in FileCall : call'[c] \in FileCallRecord /\ call'[c].at \in {"unused", "ok", "error", "dead"}
  BY <1>2, <1>6, <1>7
<1>9. call' \in [FileCall -> FileCallRecord]
  <2>1. call' = [c \in FileCall |-> call'[c]]
    BY DEF CrashFiles
  <2> QED
    BY <1>8, <2>1
<1>10. LogSafe' /\ events' \in Seq(EventLine) /\ cuts' \in Nat
  <2>1. \A c \in FileCall : call[c].at = "ok" => call'[c].at = "ok"
    BY <1>6
  <2>2. CASE UNCHANGED <<events, cuts>>
    <3>1. events' \in Seq(EventLine) /\ cuts' \in Nat
      BY <2>2 DEF FilesIInv, FilesTypeOK
    <3> QED
      BY <1>1, <2>1, <2>2, <3>1, EventLogStays
  <2>3. CASE events' = CutOff /\ cuts' = cuts + 1
    BY <1>1, <2>1, <2>3, CutOffSafe
  <2> QED
    BY <1>1, <2>2, <2>3
<1>11. FilesTypeOK'
  <2>1. \A c \in FileCall : WriteFits(call'[c])
    BY <1>8 DEF WriteFits
  <2> QED
    BY <1>1, <1>9, <1>10, <2>1 DEF FilesIInv, FilesTypeOK
<1>12. MutexesExclude'
  <2>1. \A c \in FileCall : call'[c].at \notin UnderMutex
    BY <1>8 DEF UnderMutex
  <2>2. \A c \in FileCall : call'[c].gen <= storeMutex'[StoreOf(call'[c].op)]
    <3> SUFFICES ASSUME NEW c \in FileCall
                 PROVE  call'[c].gen <= storeMutex'[StoreOf(call'[c].op)]
      OBVIOUS
    <3>1. CASE call'[c] = call[c]
      BY <1>1, <3>1 DEF FilesIInv, MutexesExclude
    <3>2. CASE call'[c].gen = 0
      <4>1. storeMutex[StoreOf(call'[c].op)] \in Nat
        BY <1>2, StoreIs
      <4> QED
        BY <1>1, <3>2, <4>1
    <3> QED
      BY <1>6, <1>7, <3>1, <3>2
  <2>3. "reports" \notin forgotten' /\ \A s \in Store : s \notin forgotten' => storeMutex'[s] = 0
    BY <1>1 DEF FilesIInv, MutexesExclude
  <2> QED
    BY <2>1, <2>2, <2>3 DEF MutexesExclude
<1>13. WritesPending'
  <2> SUFFICES ASSUME NEW c \in FileCall
               PROVE  PendingSafe(call[c])'
    BY DEF WritesPending
  <2>1. call'[c].at \notin {"write", "rest"}
    BY <1>8
  <2> QED
    BY <2>1 DEF PendingSafe
<1>14. ReportsSafe'
  <2>1. LateSaves \subseteq LateSaves'
    BY <1>6, <1>7 DEF LateSaves
  <2> QED
    BY <1>1, <2>1, ReportsStay
<1> QED
  BY <1>1, <1>10, <1>11, <1>12, <1>13, <1>14, KeptStays, NotesStay, CheckpointsStay DEF FilesIInv, StoresSafe

LEMMA FileWriteFailsKept ==
  ASSUME FilesIInv, NEW c \in FileCall, FileWriteFails(c)
  PROVE  FilesIInv'
  BY CallFails DEF FileWriteFails, UnderMutex

LEMMA FilesStepKept == FilesIInv /\ [FilesStep]_fileVars => FilesIInv'
<1> SUFFICES ASSUME FilesIInv, [FilesStep]_fileVars
             PROVE  FilesIInv'
  OBVIOUS
<1>1. CASE UNCHANGED fileVars
  <2>1. UNCHANGED <<focus, content, cps, reports, events, storeMutex, held, call, kept, saved, logged, cuts, forgotten>>
    BY <1>1 DEF fileVars, dirDisk, history
  <2>2. FilesTypeOK'
    BY <2>1 DEF FilesIInv, FilesTypeOK
  <2>3. MutexesExclude'
    BY <2>1 DEF FilesIInv, MutexesExclude, MyLock
  <2>4. WritesPending'
    <3>1. \A kind \in {Note, Scratch} : Count(kind)' = Count(kind)
      BY <2>1 DEF Count
    <3> QED
      BY <2>1, <3>1 DEF FilesIInv, WritesPending, PendingSafe
  <2>5. ReportsSafe'
    <3>1. LateSaves' = LateSaves
      BY <2>1 DEF LateSaves
    <3> QED
      BY <2>1, <3>1, ReportsStay
  <2> QED
    BY <2>1, <2>2, <2>3, <2>4, <2>5, EventLogStays, KeptStays, NotesStay, CheckpointsStay DEF FilesIInv, StoresSafe
<1>2. CASE CrashFiles
  BY <1>2, CrashKept
<1>3. ASSUME NEW c \in FileCall,
             \/ \E op \in focus : BeginCall(c, op)
             \/ LockCall(c) \/ PromoteSnapshot(c) \/ PromoteCommit(c) \/ TouchMeta(c)
             \/ CreateDir(c) \/ UpdateMeta(c) \/ SetState(c) \/ DeleteState(c) \/ StatForAppend(c)
      PROVE  FilesIInv'
  BY <1>3, BeginAndLock, PromotionKept, TouchMetaKept, SessionCallsKept
<1>4. ASSUME NEW c \in FileCall,
             \/ UpdateMetrics(c) \/ CreateTreeFile(c) \/ DeleteNodeFile(c)
             \/ AddNodeFile(c) \/ UpdateNodeFile(c) \/ SetCursorFile(c)
             \/ WritePlan(c) \/ WriteNote(c) \/ WriteScratch(c) \/ WriteArtifact(c)
             \/ SaveCheckpoint(c) \/ SaveReport(c)
      PROVE  FilesIInv'
  BY <1>4, TreeCallsKept, WorkspaceCallsKept, NumberedCallsKept DEF AddNodeFile, UpdateNodeFile, SetCursorFile
<1>5. ASSUME NEW c \in FileCall,
             \/ CreateFails(c) \/ CreateRest(c) \/ DeleteSession(c) \/ DeleteMetrics(c)
             \/ DeleteCheckpoints(c) \/ DeleteTreeDir(c) \/ DeleteWorkspace(c) \/ DeleteScratchSlot(c)
      PROVE  FilesIInv'
  BY <1>5, DeletionsKept
<1>6. ASSUME NEW c \in FileCall,
             \/ AppendEvent(c) \/ AppendCutOff(c) \/ WriteCheckpoint(c) \/ WriteReport(c)
             \/ TrimReports(c) \/ ReplaceFile(c) \/ FileWriteFails(c)
      PROVE  FilesIInv'
  BY <1>6, AppendEventKept, AppendCutOffKept, WriteCheckpointKept, WriteReportKept, TrimReportsKept,
     ReplaceFileKept, FileWriteFailsKept
<1> QED
  BY <1>1, <1>2, <1>3, <1>4, <1>5, <1>6 DEF FilesStep

LEMMA WritesKeptFollows == FilesIInv => WritesKept
<1> SUFFICES ASSUME FilesIInv
             PROVE  WritesKept
  OBVIOUS
<1>1. /\ KeptSafe /\ CheckpointsSafe /\ NotesSafe /\ ReportsSafe /\ saved \in Seq(Nat)
      /\ cps \subseteq [seq : Nat, by : FileCall] /\ IsFiniteSet({p.seq : p \in cps})
  BY DEF FilesIInv, StoresSafe, FilesTypeOK
<1>2. \A f \in Rewritten :
        OwnerOf(f) \notin forgotten => kept[f] \subseteq content[f]
  BY <1>1 DEF KeptSafe
<1>3. {saved[i] : i \in DOMAIN saved} \subseteq {p.seq : p \in cps}
  <2> SUFFICES ASSUME NEW i \in DOMAIN saved
               PROVE  saved[i] \in {p.seq : p \in cps}
    OBVIOUS
  <2>1. i \in 1..Len(saved)
    BY <1>1
  <2>2. PICK p \in cps : p.seq = saved[i]
    BY <1>1, <2>1 DEF CheckpointsSafe
  <2> QED
    BY <2>2
<1>4. ASSUME "checkpoints" \notin forgotten, saved # <<>>
      PROVE  LatestCheckpoint = saved[Len(saved)]
  <2>1. PICK s \in Seq(Nat), n \in Nat : s = saved /\ n = Len(s)
    BY <1>1
  <2>2. n # 0 /\ DOMAIN s = 1..n
    BY <1>4, <2>1
  <2>3. n \in 1..n /\ s[n] \in Nat
    BY <2>1, <2>2
  <2>4. \A i \in 1..n : i < n => s[i] < s[n]
    BY <1>1, <1>4, <2>1, <2>2, <2>3 DEF CheckpointsSafe, Increasing
  <2>5. \A i \in 1..n : s[i] <= s[n] /\ s[i] \in Nat
    <3> SUFFICES ASSUME NEW i \in 1..n
                 PROVE  s[i] <= s[n] /\ s[i] \in Nat
      OBVIOUS
    <3>1. s[i] \in Nat /\ (i < n \/ i = n)
      BY <2>1
    <3> QED
      BY <2>3, <2>4, <3>1
  <2> DEFINE S == {p.seq : p \in cps}
  <2>6. s[n] \in S
    <3>1. PICK p \in cps : p.seq = s[n]
      BY <1>1, <2>1, <2>3 DEF CheckpointsSafe
    <3> QED
      BY <3>1
  <2>7. \A y \in S : y <= s[n] /\ y \in Nat
    <3> SUFFICES ASSUME NEW p \in cps
                 PROVE  p.seq <= s[n] /\ p.seq \in Nat
      OBVIOUS
    <3>1. PICK i \in 1..n : s[i] = p.seq
      BY <1>1, <2>1 DEF CheckpointsSafe
    <3> QED
      BY <2>5, <3>1
  <2>8. LatestCheckpoint = Max(S)
    BY DEF LatestCheckpoint
  <2>9. IsFiniteSet(S)
    BY <1>1
  <2> HIDE DEF S
  <2>10. S \subseteq Nat /\ S # {}
    BY <2>6, <2>7
  <2>11. Max(S) \in S /\ \A y \in S : Max(S) >= y
    BY <2>9, <2>10, GreatestNumber
  <2>12. Max(S) <= s[n] /\ Max(S) >= s[n] /\ Max(S) \in Nat
    BY <2>6, <2>7, <2>11
  <2> QED
    BY <2>1, <2>3, <2>8, <2>12
<1>5. "checkpoints" \notin forgotten =>
        Increasing(saved) /\ \A p, q \in cps : p.seq = q.seq => p = q
  BY <1>1 DEF CheckpointsSafe
<1>6. "workspace" \notin forgotten => Count(Note) <= MaxNotes /\ Count(Scratch) <= MaxNotes
  BY <1>1 DEF NotesSafe
<1>7. LateSaves = {} => Cardinality(reports) <= MaxReports
  BY <1>1 DEF ReportsSafe
<1> QED
  BY <1>2, <1>3, <1>4, <1>5, <1>6, <1>7 DEF WritesKept, LateSaves

LEMMA EventsKeptFollows == FilesIInv => EventsKept
<1> SUFFICES ASSUME FilesIInv
             PROVE  EventsKept
  OBVIOUS
<1> DEFINE on == {p \in (DOMAIN events) \X (1..Cardinality(FileCall)) : p[2] <= Len(events[p[1]].es)}
           at(e) == {p \in on : events[p[1]].es[p[2]] = e}
<1>1. events \in Seq(EventLine) /\ logged \in Seq(FileCall) /\ cuts \in Nat /\ LogSafe
  BY DEF FilesIInv, FilesTypeOK, StoresSafe
<1>2. PICK m \in Nat, k \in Nat : m = Len(logged) /\ k = Len(events)
  BY <1>1
<1>3. (k = m \/ k = m + 1) /\ DOMAIN events = 1..k /\ DOMAIN logged = 1..m
  <2>1. m <= k /\ k <= m + 1
    BY <1>1, <1>2 DEF LogSafe
  <2>2. DOMAIN events = 1..k /\ DOMAIN logged = 1..m
    BY <1>1, <1>2
  <2> QED
    BY <2>1, <2>2
<1>4. k = m + 1 => events[k] = Line(<<>>, TRUE, TRUE)
  BY <1>1, <1>2 DEF LogSafe
<1>5. \A i \in 1..m : events[i].es = <<logged[i]>> /\ ~events[i].open
  BY <1>1, <1>2 DEF LogSafe
<1>6. \A i, j \in 1..m : logged[i] = logged[j] => i = j
  BY <1>1, <1>2 DEF LogSafe
<1>7. \A i \in 1..m : Len(events[i].es) = 1 /\ events[i].es[1] = logged[i]
  BY SMTT(40), <1>5
<1>8. \A i \in 1..k : i \in 1..m \/ (i = m + 1 /\ i = k /\ Len(events[i].es) = 0 /\ events[i].bad)
  <2> SUFFICES ASSUME NEW i \in 1..k, i \notin 1..m
               PROVE  i = m + 1 /\ i = k /\ Len(events[i].es) = 0 /\ events[i].bad
    OBVIOUS
  <2>1. i = m + 1 /\ i = k
    BY <1>3
  <2>2. events[i].es = <<>> /\ events[i].bad = TRUE
    BY <1>4, <2>1 DEF Line
  <2> QED
    BY <2>1, <2>2
<1>9. ASSUME NEW l \in 1..m
      PROVE  at(logged[l]) = {<<l, 1>>}
  <2>1. <<l, 1>> \in at(logged[l])
    <3>1. logged[l] \in FileCall
      BY <1>1, <1>2
    <3>2. IsFiniteSet(FileCall) /\ FileCall # {}
      BY <3>1, FilesAssumption
    <3>3. Cardinality(FileCall) \in Nat /\ Cardinality(FileCall) # 0
      BY <3>2, FS_CardinalityType, FS_EmptySet
    <3>4. 1 \in 1..Cardinality(FileCall)
      BY <3>3
    <3>5. l \in DOMAIN events
      BY <1>3
    <3>6. 1 <= Len(events[l].es)
      BY <1>7
    <3> QED
      BY <1>7, <3>4, <3>5, <3>6
  <2>2. ASSUME NEW p \in at(logged[l])
        PROVE  p = <<l, 1>>
    <3>1. p \in (1..k) \X (1..Cardinality(FileCall)) /\ p[2] <= Len(events[p[1]].es)
          /\ events[p[1]].es[p[2]] = logged[l]
      BY <1>3, <2>2
    <3>2. PICK i \in 1..k, j \in 1..Cardinality(FileCall) : p = <<i, j>>
      BY <3>1
    <3>3. j <= Len(events[i].es) /\ events[i].es[j] = logged[l]
      BY <3>1, <3>2
    <3>4. j \in Nat /\ j >= 1
      <4>1. IsFiniteSet(FileCall)
        BY FilesAssumption
      <4>2. Cardinality(FileCall) \in Nat
        BY <4>1, FS_CardinalityType
      <4> QED
        BY <4>2
    <3>5. i \in 1..m
      BY <1>8, <3>3, <3>4
    <3>6. j = 1
      BY <1>7, <3>3, <3>4, <3>5
    <3>7. i = l
      BY <1>6, <1>7, <3>3, <3>5, <3>6
    <3> QED
      BY <3>2, <3>6, <3>7
  <2> HIDE DEF at
  <2> QED
    BY <2>1, <2>2
<1>10. \A l \in DOMAIN logged : Cardinality(at(logged[l])) = 1
  <2> SUFFICES ASSUME NEW l \in 1..m
               PROVE  Cardinality(at(logged[l])) = 1
    BY <1>3
  <2>1. at(logged[l]) = {<<l, 1>>}
    BY <1>9
  <2> HIDE DEF at
  <2> QED
    BY <2>1, FS_Singleton
<1>11. \A i, j \in DOMAIN logged : i < j => \A p \in at(logged[i]), q \in at(logged[j]) : p[1] < q[1]
  <2>1. ASSUME NEW i \in 1..m, NEW j \in 1..m, i < j
        PROVE  \A p \in at(logged[i]), q \in at(logged[j]) : p[1] < q[1]
    <3>1. at(logged[i]) = {<<i, 1>>} /\ at(logged[j]) = {<<j, 1>>}
      BY <1>9
    <3> HIDE DEF at
    <3> QED
      BY <2>1, <3>1
  <2> HIDE DEF at
  <2> QED
    BY <1>3, <2>1
<1>12. \A i \in DOMAIN events : Len(events[i].es) <= 1 /\ (events[i].open => i = Len(events))
  <2> SUFFICES ASSUME NEW i \in 1..k
               PROVE  Len(events[i].es) <= 1 /\ (events[i].open => i = k)
    BY <1>2, <1>3
  <2>1. CASE i \in 1..m
    <3>1. Len(events[i].es) = 1 /\ ~events[i].open
      BY <1>5, <1>7, <2>1
    <3> QED
      BY <3>1
  <2>2. CASE i \notin 1..m
    <3>1. Len(events[i].es) = 0 /\ i = k
      BY <1>8, <2>2
    <3> QED
      BY <3>1
  <2> QED
    BY <2>1, <2>2
<1>13. Cardinality({i \in DOMAIN events : events[i].bad}) <= cuts
  BY <1>1 DEF LogSafe, BadLines
<1>14. cuts = 0 => ListEvents = logged
  <2> SUFFICES ASSUME cuts = 0
               PROVE  ListEvents = logged
    OBVIOUS
  <2>1. IsFiniteSet(BadLines)
    <3>1. BadLines \subseteq 1..k
      BY <1>3 DEF BadLines
    <3>2. \A a, b \in Int : IsFiniteSet(a..b)
      BY FS_Interval
    <3>3. IsFiniteSet(1..k)
      BY <3>2
    <3> QED
      BY <3>1, <3>3, FS_Subset
  <2>2. Cardinality(BadLines) <= 0
    BY <1>1 DEF LogSafe
  <2>3. Cardinality(BadLines) = 0
    <3> HIDE DEF BadLines
    <3>1. Cardinality(BadLines) \in Nat
      BY <2>1, FS_CardinalityType
    <3> QED
      BY <2>2, <3>1
  <2>4. BadLines = {}
    <3> HIDE DEF BadLines
    <3> QED
      BY <2>1, <2>3, FS_EmptySet
  <2>5. \A i \in 1..k : ~events[i].bad /\ i \in 1..m
    BY <1>3, <1>8, <2>4 DEF BadLines
  <2>6. ListEvents = [i \in 1..k |-> events[i].es[1]]
    BY <1>3, <2>5 DEF ListEvents
  <2>7. k = m
    BY <1>3, <2>5
  <2>8. [i \in 1..m |-> events[i].es[1]] = [i \in 1..m |-> logged[i]]
    BY <1>7
  <2>9. [i \in 1..m |-> logged[i]] = logged
    BY <1>1, <1>3
  <2> QED
    BY <2>6, <2>7, <2>8, <2>9
<1> HIDE DEF at
<1> QED
  BY <1>10, <1>11, <1>12, <1>13, <1>14 DEF EventsKept, at

-----------------------------------------------------------------------------
\* A Create that fails

Creating(c) == call[c].op = "Create" /\ call[c].at \in {"write", "rest"}

\* Where there is no session, or one that is being made, the session store has
\* acknowledged nothing that a failed Create could take.
NothingYet == "session" \notin dirs \/ \E c \in FileCall : Creating(c)
NothingToLose == kept["state"] = {} /\ logged = <<>>
OwnUnharmed ==
  "session" \notin forgotten => "session" \notin wiped /\ (NothingYet => NothingToLose)

\* A step that makes no session and keeps no more than before.
Harmless ==
  /\ wiped' = wiped /\ forgotten \subseteq forgotten'
  /\ "session" \in dirs => "session" \in dirs'
  /\ \A c \in FileCall : Creating(c)' => Creating(c)
  /\ logged' = logged /\ kept'["state"] \subseteq kept["state"]

LEMMA HarmlessKept == OwnUnharmed /\ Harmless => OwnUnharmed'
  BY DEF OwnUnharmed, Harmless, NothingYet, NothingToLose

\* A write of the session store excludes a Create under way.
LEMMA NotCreating ==
  ASSUME FilesIInv, "session" \notin forgotten, NEW c \in FileCall,
         call[c].at \in UnderMutex, StoreOf(call[c].op) = "session", ~Creating(c),
         NEW d \in FileCall
  PROVE  ~Creating(d)
<1> SUFFICES ASSUME Creating(d)
             PROVE  FALSE
  OBVIOUS
<1>1. StoreOf(call[d].op) = "session" /\ call[d].at \in UnderMutex
  BY DEF Creating, StoreOf, UnderMutex
<1>2. storeMutex["session"] = 0 /\ call[c].gen <= storeMutex["session"] /\ call[d].gen <= storeMutex["session"]
  BY <1>1 DEF FilesIInv, MutexesExclude, Store
<1>3. call[c].gen \in Nat /\ call[d].gen \in Nat
  BY DEF FilesIInv, FilesTypeOK, FileCallRecord
<1>4. MyLock(c) = MyLock(d)
  BY <1>1, <1>2, <1>3 DEF MyLock
<1>5. c = d
  BY <1>1, <1>4 DEF FilesIInv, MutexesExclude
<1> QED
  BY <1>5

\* After a write of the session store there is one, and nobody is making it.
LEMMA SettledKept ==
  ASSUME FilesIInv, OwnUnharmed, NEW c \in FileCall,
         call[c].at \in UnderMutex, StoreOf(call[c].op) = "session", ~Creating(c),
         "session" \in dirs', wiped' = wiped, forgotten' = forgotten,
         \A d \in FileCall : Creating(d)' => Creating(d)
  PROVE  OwnUnharmed'
<1>1. ASSUME "session" \notin forgotten'
      PROVE  ~NothingYet' /\ "session" \notin wiped'
  BY <1>1, NotCreating DEF NothingYet, OwnUnharmed
<1> QED
  BY <1>1 DEF OwnUnharmed

LEMMA FilesTyped ==
  /\ FilesIInv => kept \in [Rewritten -> SUBSET Mark] /\ call \in [FileCall -> FileCallRecord]
  /\ "state" \in Rewritten /\ Rewritten \subseteq File
  BY DEF FilesIInv, FilesTypeOK, Rewritten, File

LEMMA EndsUncreating ==
  ASSUME FilesIInv, NEW c \in FileCall, NEW how \in {"ok", "error"}, End(c, how), NEW d \in FileCall
  PROVE  Creating(d)' => Creating(d)
  BY FilesTyped DEF End, Creating, FileCallRecord

LEMMA WritesUncreating ==
  ASSUME FilesIInv, NEW c \in FileCall, call[c].op # "Create", NEW f, NEW new, NEW d \in FileCall,
         call' = [call EXCEPT ![c].at = "write", ![c].file = f, ![c].new = new]
  PROVE  Creating(d)' => Creating(d)
  BY FilesTyped DEF Creating, FileCallRecord

LEMMA OwnUnharmedInitial == FilesInit => OwnUnharmed
  BY DEF FilesInit, OwnUnharmed, NothingToLose, Rewritten

LEMMA SessionSpares ==
  ASSUME FilesIInv, OwnUnharmed, NEW c \in FileCall,
         \/ \E op \in focus : BeginCall(c, op)
         \/ LockCall(c) \/ UpdateMeta(c) \/ SetState(c) \/ DeleteState(c) \/ StatForAppend(c)
  PROVE  OwnUnharmed'
<1> USE FilesTyped
<1>1. CASE (\E op \in focus : BeginCall(c, op)) \/ LockCall(c)
  <2>1. \A d \in FileCall : Creating(d)' => Creating(d)
    BY <1>1 DEF BeginCall, LockCall, Creating, FileCallRecord, Nothing
  <2> QED
    BY <1>1, <2>1, HarmlessKept DEF BeginCall, LockCall, Harmless, dirDisk, history
<1>2. CASE UpdateMeta(c) \/ SetState(c) \/ StatForAppend(c)
  <2>1. \A d \in FileCall : Creating(d)' => Creating(d)
    BY <1>2, EndsUncreating, WritesUncreating DEF UpdateMeta, SetState, StatForAppend, Doing, ToWrite, Fails
  <2> QED
    BY <1>2, <2>1, HarmlessKept
    DEF UpdateMeta, SetState, StatForAppend, ToWrite, Fails, Harmless, dirDisk, history
<1>3. CASE DeleteState(c)
  <2>1. \A d \in FileCall : Creating(d)' => Creating(d)
    BY <1>3, EndsUncreating, WritesUncreating DEF DeleteState, Doing, ToWriteWithout, Fails
  <2>2. kept'["state"] \subseteq kept["state"]
    BY <1>3 DEF DeleteState, ToWriteWithout, Fails, history
  <2> QED
    BY <1>3, <2>1, <2>2, HarmlessKept DEF DeleteState, ToWriteWithout, Fails, Harmless, dirDisk, history
<1> QED
  BY <1>1, <1>2, <1>3

LEMMA CreateSpares ==
  ASSUME FilesIInv, OwnUnharmed, NEW c \in FileCall,
         CreateDir(c) \/ CreateRest(c) \/ CreateFails(c) \/ DeleteSession(c)
  PROVE  OwnUnharmed'
<1> USE FilesTyped
<1>1. CASE CreateDir(c) /\ "session" \in dirs
  BY <1>1, EndsUncreating, HarmlessKept DEF CreateDir, Fails, Harmless, dirDisk, history
<1>2. CASE CreateDir(c) /\ "session" \notin dirs
  BY <1>2 DEF CreateDir, ToWrite, history, OwnUnharmed, NothingYet, NothingToLose
<1>3. CASE CreateRest(c)
  <2>1. Creating(c) /\ kept'["state"] = {}
    BY <1>3 DEF CreateRest, Creating
  <2> QED
    BY <1>3, <2>1 DEF CreateRest, OwnUnharmed, NothingYet, NothingToLose
<1>4. CASE CreateFails(c)
  <2>1. Creating(c) /\ forgotten' = forgotten /\ wiped' = wiped \cup Acknowledged
    BY <1>4 DEF CreateFails, Creating
  <2>2. kept'["state"] = {} /\ logged' = <<>>
    BY <1>4 DEF CreateFails, RemoveSession, Forget
  <2>3. NothingToLose => "session" \notin Acknowledged
    BY DEF NothingToLose, Acknowledged, OwnerOf, Rewritten
  <2> QED
    BY <2>1, <2>2, <2>3 DEF OwnUnharmed, NothingYet, NothingToLose
<1>5. CASE DeleteSession(c)
  BY <1>5 DEF DeleteSession, ForgetMutex, OwnUnharmed
<1> QED
  BY <1>1, <1>2, <1>3, <1>4, <1>5

\* Calls that acknowledge something to the caller of the session store.
LEMMA AcknowledgingSpares ==
  ASSUME FilesIInv, OwnUnharmed, NEW c \in FileCall,
         TouchMeta(c) \/ AppendEvent(c) \/ AppendCutOff(c)
  PROVE  OwnUnharmed'
<1>1. call[c].at \in UnderMutex /\ StoreOf(call[c].op) = "session" /\ ~Creating(c)
  BY DEF TouchMeta, AppendEvent, AppendCutOff, StoreOf, UnderMutex, Creating
<1>2. \A d \in FileCall : Creating(d)' => Creating(d)
  BY EndsUncreating DEF TouchMeta, AppendEvent, AppendCutOff, Fails
<1>3. CASE "session" \in dirs'
  BY <1>1, <1>2, <1>3, SettledKept DEF TouchMeta, AppendEvent, AppendCutOff, Fails, history
<1>4. CASE "session" \notin dirs'
  <2>1. TouchMeta(c) /\ Fails(c)
    BY <1>4 DEF TouchMeta, AppendEvent, AppendCutOff, HasMeta, dirDisk
  <2> QED
    BY <2>1, <1>2, HarmlessKept DEF Fails, Harmless, dirDisk, history
<1> QED
  BY <1>3, <1>4

LEMMA OtherWritesSpare ==
  ASSUME FilesIInv, OwnUnharmed, NEW c \in FileCall,
         \/ UpdateMetrics(c) \/ CreateTreeFile(c) \/ DeleteNodeFile(c)
         \/ AddNodeFile(c) \/ UpdateNodeFile(c) \/ SetCursorFile(c)
         \/ PromoteSnapshot(c) \/ PromoteCommit(c)
         \/ WritePlan(c) \/ WriteNote(c) \/ WriteScratch(c) \/ WriteArtifact(c)
         \/ SaveCheckpoint(c) \/ SaveReport(c)
  PROVE  OwnUnharmed'
<1> USE FilesTyped
<1>1. CASE UpdateMetrics(c) \/ SaveCheckpoint(c) \/ SaveReport(c)
  <2>1. \A d \in FileCall : Creating(d)' => Creating(d)
    BY <1>1, WritesUncreating DEF UpdateMetrics, SaveCheckpoint, SaveReport, Doing, ToWrite
  <2> QED
    BY <1>1, <2>1, HarmlessKept DEF UpdateMetrics, SaveCheckpoint, SaveReport, ToWrite, Harmless, history
<1>2. CASE CreateTreeFile(c) \/ AddNodeFile(c) \/ UpdateNodeFile(c) \/ SetCursorFile(c)
  <2>1. \A d \in FileCall : Creating(d)' => Creating(d)
    BY <1>2, EndsUncreating, WritesUncreating
    DEF CreateTreeFile, AddNodeFile, UpdateNodeFile, SetCursorFile, RewriteTree, Doing, ToWrite, Fails
  <2> QED
    BY <1>2, <2>1, HarmlessKept
    DEF CreateTreeFile, AddNodeFile, UpdateNodeFile, SetCursorFile, RewriteTree, ToWrite, Fails, Harmless,
        dirDisk, history
<1>3. CASE DeleteNodeFile(c)
  <2>1. \A d \in FileCall : Creating(d)' => Creating(d)
    BY <1>3, EndsUncreating, WritesUncreating DEF DeleteNodeFile, Doing, ToWriteWithout, Fails
  <2>2. kept'["state"] \subseteq kept["state"]
    BY <1>3 DEF DeleteNodeFile, ToWriteWithout, Fails, history
  <2> QED
    BY <1>3, <2>1, <2>2, HarmlessKept DEF DeleteNodeFile, ToWriteWithout, Fails, Harmless, dirDisk, history
<1>4. CASE PromoteSnapshot(c) \/ PromoteCommit(c)
  <2>1. \A d \in FileCall : Creating(d)' => Creating(d)
    BY <1>4, EndsUncreating DEF PromoteSnapshot, PromoteCommit, Doing, Fails, Creating, FileCallRecord
  <2> QED
    BY <1>4, <2>1, HarmlessKept DEF PromoteSnapshot, PromoteCommit, Fails, Harmless, dirDisk, history
<1>5. CASE WritePlan(c) \/ WriteNote(c) \/ WriteScratch(c) \/ WriteArtifact(c)
  <2>1. \A d \in FileCall : Creating(d)' => Creating(d)
    BY <1>5, EndsUncreating, WritesUncreating
    DEF WritePlan, WriteNote, WriteScratch, WriteArtifact, WriteEntry, Doing, ToWrite, Fails
  <2> QED
    BY <1>5, <2>1, HarmlessKept
    DEF WritePlan, WriteNote, WriteScratch, WriteArtifact, WriteEntry, ToWrite, Fails, Harmless, dirDisk, history
<1> QED
  BY <1>1, <1>2, <1>3, <1>4, <1>5

LEMMA DeletionsSpare ==
  ASSUME FilesIInv, OwnUnharmed, NEW c \in FileCall,
         \/ DeleteMetrics(c) \/ DeleteCheckpoints(c) \/ DeleteTreeDir(c) \/ DeleteWorkspace(c)
         \/ DeleteScratchSlot(c) \/ WriteCheckpoint(c) \/ WriteReport(c) \/ TrimReports(c)
         \/ FileWriteFails(c)
  PROVE  OwnUnharmed'
<1> USE FilesTyped
<1>1. CASE DeleteMetrics(c) \/ DeleteCheckpoints(c) \/ DeleteTreeDir(c) \/ DeleteWorkspace(c)
  <2>1. \A d \in FileCall : Creating(d)' => Creating(d)
    BY <1>1, EndsUncreating DEF DeleteMetrics, DeleteCheckpoints, DeleteTreeDir, DeleteWorkspace
  <2>2. kept'["state"] \subseteq kept["state"]
    BY <1>1 DEF DeleteMetrics, DeleteCheckpoints, DeleteTreeDir, DeleteWorkspace, Forget
  <2> QED
    BY <1>1, <2>1, <2>2, HarmlessKept
    DEF DeleteMetrics, DeleteCheckpoints, DeleteTreeDir, DeleteWorkspace, ForgetMutex, Harmless
<1>2. CASE DeleteScratchSlot(c) \/ WriteCheckpoint(c) \/ TrimReports(c) \/ FileWriteFails(c)
  <2>1. \A d \in FileCall : Creating(d)' => Creating(d)
    BY <1>2, EndsUncreating DEF DeleteScratchSlot, WriteCheckpoint, TrimReports, FileWriteFails, Fails
  <2> QED
    BY <1>2, <2>1, HarmlessKept
    DEF DeleteScratchSlot, WriteCheckpoint, TrimReports, FileWriteFails, Fails, Harmless, dirDisk, history
<1>3. CASE WriteReport(c)
  <2>1. \A d \in FileCall : Creating(d)' => Creating(d)
    BY <1>3 DEF WriteReport, Creating, FileCallRecord
  <2> QED
    BY <1>3, <2>1, HarmlessKept DEF WriteReport, Harmless, history
<1> QED
  BY <1>1, <1>2, <1>3

LEMMA ReplaceSpares ==
  ASSUME FilesIInv, OwnUnharmed, NEW c \in FileCall, ReplaceFile(c)
  PROVE  OwnUnharmed'
<1>1. \A d \in FileCall : Creating(d)' => Creating(d)
  BY FilesTyped, EndsUncreating DEF ReplaceFile, Replaces, Creating, FileCallRecord
<1>2. /\ "session" \in dirs' /\ wiped' = wiped /\ forgotten' = forgotten /\ logged' = logged
      /\ call[c].at = "write" /\ call[c].op # "AppendEvent"
  BY DEF ReplaceFile, Replaces
<1>3. CASE kept' = kept
  BY <1>1, <1>2, <1>3, HarmlessKept DEF Harmless
<1>4. CASE kept'["state"] # kept["state"]
  <2>1. /\ call[c].op \notin {"Create", "SetState", "DeleteState"} /\ call[c].file = "state"
        /\ kept' = [g \in Rewritten |-> IF g = call[c].file THEN kept[g] \cup (call[c].new \cap {c}) ELSE kept[g]]
    BY <1>4, FilesTyped DEF ReplaceFile
  <2>2. StoreOf(call[c].op) = "session"
    BY <1>2, <2>1, FilesTyped DEF FilesIInv, FilesTypeOK, WriteFits, OwnerOf
  <2> QED
    BY <1>1, <1>2, <2>1, <2>2, SettledKept DEF UnderMutex, Creating
<1>5. CASE kept'["state"] = kept["state"]
  BY <1>1, <1>2, <1>5, HarmlessKept DEF Harmless
<1> QED
  BY <1>4, <1>5

LEMMA OwnUnharmedKept == FilesIInv /\ OwnUnharmed /\ [FilesStep]_fileVars => OwnUnharmed'
<1> SUFFICES ASSUME FilesIInv, OwnUnharmed, [FilesStep]_fileVars
             PROVE  OwnUnharmed'
  OBVIOUS
<1>1. CASE UNCHANGED fileVars
  BY <1>1 DEF fileVars, dirDisk, history, OwnUnharmed, NothingYet, NothingToLose, Creating
<1>2. CASE CrashFiles
  <2>1. \A d \in FileCall : Creating(d)' => Creating(d)
    BY <1>2 DEF CrashFiles, Creating, Nothing
  <2> QED
    BY <1>2, <2>1, HarmlessKept DEF CrashFiles, Harmless
<1>3. ASSUME NEW c \in FileCall,
             \/ \E op \in focus : BeginCall(c, op)
             \/ LockCall(c) \/ UpdateMeta(c) \/ SetState(c) \/ DeleteState(c) \/ StatForAppend(c)
             \/ CreateDir(c) \/ CreateRest(c) \/ CreateFails(c) \/ DeleteSession(c)
             \/ TouchMeta(c) \/ AppendEvent(c) \/ AppendCutOff(c) \/ ReplaceFile(c)
      PROVE  OwnUnharmed'
  BY <1>3, SessionSpares, CreateSpares, AcknowledgingSpares, ReplaceSpares
<1>4. ASSUME NEW c \in FileCall,
             \/ UpdateMetrics(c) \/ CreateTreeFile(c) \/ DeleteNodeFile(c)
             \/ AddNodeFile(c) \/ UpdateNodeFile(c) \/ SetCursorFile(c)
             \/ PromoteSnapshot(c) \/ PromoteCommit(c)
             \/ WritePlan(c) \/ WriteNote(c) \/ WriteScratch(c) \/ WriteArtifact(c)
             \/ SaveCheckpoint(c) \/ SaveReport(c)
      PROVE  OwnUnharmed'
  BY <1>4, OtherWritesSpare
<1>5. ASSUME NEW c \in FileCall,
             \/ DeleteMetrics(c) \/ DeleteCheckpoints(c) \/ DeleteTreeDir(c) \/ DeleteWorkspace(c)
             \/ DeleteScratchSlot(c) \/ WriteCheckpoint(c) \/ WriteReport(c) \/ TrimReports(c)
             \/ FileWriteFails(c)
      PROVE  OwnUnharmed'
  BY <1>5, DeletionsSpare
<1> QED
  BY <1>1, <1>2, <1>3, <1>4, <1>5 DEF FilesStep

\* What a store of the session directory acknowledged is there to be read until
\* it is deleted, for any number of calls in any order, failed writes and
\* crashes included, except where the store forgot its mutex or a failed Create
\* of the session took the data of another store with the directory; a failed
\* Create takes nothing the session store itself has acknowledged.
THEOREM AcknowledgedWritesKept == FilesSpec => []FilesKept
<1>1. FilesIInv => WritesKept /\ EventsKept
  BY WritesKeptFollows, EventsKeptFollows
<1>2. OwnUnharmed => OwnDataSpared
  BY DEF OwnUnharmed, OwnDataSpared
<1>3. FilesSpec => []FilesIInv
  BY FilesInitial, FilesStepKept, PTL DEF FilesSpec
<1>4. FilesSpec => []OwnUnharmed
  BY <1>3, OwnUnharmedInitial, OwnUnharmedKept, PTL DEF FilesSpec
<1>5. FilesIInv /\ OwnUnharmed => FilesKept
  BY <1>1, <1>2 DEF FilesKept
<1> QED
  BY <1>3, <1>4, <1>5, PTL
=============================================================================
