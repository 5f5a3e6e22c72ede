--------------------------- MODULE ToolCallProofs ---------------------------
(***************************************************************************)
(* Proofs about tool calls.  Any number of attempts race to resume any     *)
(* number of records: every step of an attempt is a step of the atomic     *)
(* store or leaves it alone, so what InterruptStoreProofs shows of the     *)
(* store holds here too.  The file tools edit what they have read, for     *)
(* any calls, paths and texts.  Todo lists reach the session in order and  *)
(* children have an owner, for any sessions, lists and calls.              *)
(***************************************************************************)
EXTENDS InterruptResume, InterruptStoreProofs, FileTools, SessionTools, FiniteSetTheorems

-----------------------------------------------------------------------------
\* The inductive invariant.

\* Where an attempt may hold the lease of its record.
Leased == {"finishComplete", "compat", "exec", "loop", "release", "complete",
           "supLookup", "supCreate", "supComplete"}

\* An attempt under way has a record and, to supersede it, a policy.
Started(a) ==
  /\ pc[a] = "idle" => executed[a] = {} /\ a \notin successorAtStart
  /\ pc[a] # "idle" => target[a] \in RecordId /\ Exists(target[a])
  /\ pc[a] \in {"supAcquire", "supLookup", "supCreate"} => newPolicy[a] \in Fingerprint

\* The copy taken with the lease has every verdict, and they are final.
SnapDecided(a) ==
  pc[a] \in {"compat", "exec"} =>
    LET rec == store[target[a]] IN
    /\ snap[a].pending = rec.pending
    /\ \A c \in rec.pending : /\ rec.decisions[c] # Undecided
                              /\ snap[a].decisions[c] = rec.decisions[c]

Approved(a) ==
  \A c \in executed[a] :
    LET rec == store[target[a]] IN
    /\ AllDecided(rec.pending, rec.decisions)
    /\ c \in rec.pending => rec.decisions[c] = "execute"

\* An attempt that began after a successor stays on the path that finds it.
Obeying(a) ==
  a \in successorAtStart =>
    /\ Successors(target[a]) # {}
    /\ pc[a] \in {"submit", "lookup", "finish", "finishComplete"} \cup Over
    /\ executed[a] = {}

\* A lease on record belongs to an attempt that still means to end it, that was
\* killed, or whose call to end it failed.
LeaseKept(a) ==
  \A id \in RecordId : (Exists(id) /\ store[id].owner = a) =>
    /\ target[a] = id
    /\ pc[a] \in Leased \cup {"crashed"} \/ (a \in unended /\ pc[a] # "idle")

OverdueDone ==
  \A a \in Attempt, id \in RecordId :
    <<a, id>> \in overdue => pc[a] \in {"supComplete"} \cup Over

FiniteHistory ==
  /\ IsFiniteSet(minted)
  /\ \A id \in RecordId : IsFiniteSet(Overdue(id))

\* Under a live lease the look-up stays true, but for attempts that overran.
LookedUp ==
  \A a \in Attempt :
    (pc[a] = "supCreate" /\ granted[a][target[a]] > now) =>
      Cardinality(Successors(target[a])) <= Cardinality(Overdue(target[a]))

ResumeIInv ==
  /\ IInv
  /\ now # 0
  /\ ResumeTypeOK
  /\ \A a \in Attempt : Started(a) /\ SnapDecided(a) /\ Approved(a) /\ Obeying(a) /\ LeaseKept(a)
  /\ OverdueDone
  /\ FiniteHistory
  /\ LookedUp
  /\ SuccessorUnique

-----------------------------------------------------------------------------
\* Steps of the store.

\* What a step does to the store: one operation or nothing, and no deletion.
Grows ==
  /\ [Next]_vars
  /\ \A id \in RecordId : Exists(id) => store'[id] # Absent

\* Every operation of the store but Delete keeps every record.
LEMMA OperationGrows ==
  ASSUME IInv, NEW id \in RecordId,
         \/ \E meta \in Meta, pending \in SUBSET ToolCall : Create(id, meta, pending)
         \/ \E ds \in Batches : SubmitDecisions(id, ds)
         \/ \E o \in Owner, ttl \in LeaseTTL, t \in 1..now : AcquireLease(id, o, ttl, t)
         \/ \E o \in Owner : ReleaseLease(id, o) \/ Complete(id, o)
  PROVE  Grows
<1>1. [Next]_vars
  BY DEF Next
<1>2. store \in [RecordId -> Record \cup {Absent}] /\ now \in Nat /\ Absent \notin Record
  BY StoreAssumption DEF IInv, TypeOK
<1>3. ASSUME NEW rec \in Record, store' = [store EXCEPT ![id] = rec]
      PROVE  Grows
  BY <1>1, <1>2, <1>3 DEF Grows, Exists
<1>4. ASSUME NEW meta \in Meta, NEW pending \in SUBSET ToolCall, Create(id, meta, pending)
      PROVE  Grows
  BY <1>3, <1>4, NewRecordFacts DEF Create
<1>5. ASSUME NEW ds \in Batches, SubmitDecisions(id, ds)
      PROVE  Grows
  <2>1. store[id] \in Record /\ ds \in Seq(Decision)
    BY <1>2, <1>5, BatchType DEF SubmitDecisions, Writable, Exists
  <2>2. /\ ApplyDecisions(store[id], ds).committed # {}
        /\ store' = [store EXCEPT ![id] = ApplyDecisions(store[id], ds).rec]
    BY <1>5 DEF SubmitDecisions
  <2>3. ApplyDecisions(store[id], ds).rec \in Record
    BY <2>1, <2>2, SubmitFacts, CommitAuditFacts
  <2> QED BY <1>3, <2>2, <2>3
<1>6. ASSUME NEW o \in Owner, NEW ttl \in LeaseTTL, NEW t \in 1..now,
             AcquireLease(id, o, ttl, t)
      PROVE  Grows
  <2>1. store[id] \in Record /\ ttl \in Nat /\ t \in Nat
    BY <1>2, <1>6, StoreAssumption DEF AcquireLease, Writable, Exists
  <2>2. AcquireLeaseOn(store[id], o, ttl, t).rec \in Record
    BY <1>6, <2>1, AcquireFacts DEF AcquireLease
  <2> QED BY <1>3, <1>6, <2>2 DEF AcquireLease
<1>7. ASSUME NEW o \in Owner, ReleaseLease(id, o) \/ Complete(id, o)
      PROVE  Grows
  <2>1. store[id] \in Record
    BY <1>2, <1>7 DEF ReleaseLease, Complete, Writable, Exists
  <2>2. \E st \in {"ready", "completed"} : store' = [store EXCEPT ![id] = EndLease(store[id], st)]
    BY <1>7, <2>1, ReleaseFacts, CompleteFacts DEF ReleaseLease, Complete
  <2> QED BY <1>3, <2>1, <2>2, EndFacts
<1> QED BY <1>4, <1>5, <1>6, <1>7

\* A step that leaves the store alone.
LEMMA QuietGrows ==
  ASSUME UNCHANGED vars
  PROVE  Grows
BY DEF Grows, vars, Exists

\* LeaseThen takes a lease for the attempt or leaves the store alone.
LEMMA LeaseThenFacts ==
  ASSUME ResumeIInv, NEW a \in Attempt, pc[a] # "idle", NEW label, NEW refused,
         LeaseThen(a, label, refused)
  PROVE  /\ Grows
         /\ \/ /\ store'[target[a]] \in Record
               /\ store'[target[a]].owner = a
               /\ store'[target[a]].status = "resuming"
               /\ \A id \in RecordId \ {target[a]} : store'[id] = store[id]
               /\ \A b \in Attempt \ {a} : granted'[b] = granted[b]
               /\ minted' = minted /\ now' = now
               /\ Move(a, label, View(store'[target[a]]))
            \/ UNCHANGED vars /\ Goto(a, refused)
<1>1. /\ a \in Owner /\ target[a] \in RecordId /\ Exists(target[a]) /\ IInv /\ now \in Nat
      /\ store \in [RecordId -> Record \cup {Absent}] /\ store[target[a]] \in Record
      /\ granted \in [Owner -> [RecordId -> Nat]]
  BY DEF ResumeIInv, Started, Attempt, IInv, TypeOK, Exists
<1>2. ASSUME NEW ttl \in LeaseTTL, AcquireLease(target[a], a, ttl, now)
      PROVE  /\ Grows
             /\ store'[target[a]] \in Record
             /\ store'[target[a]].owner = a
             /\ store'[target[a]].status = "resuming"
             /\ \A id \in RecordId \ {target[a]} : store'[id] = store[id]
             /\ \A b \in Attempt \ {a} : granted'[b] = granted[b]
             /\ minted' = minted /\ now' = now
  <2>1. now \in 1..now
    BY <1>1 DEF ResumeIInv
  <2>2. Grows
    BY <1>1, <1>2, <2>1, OperationGrows
  <2>3. ttl \in Nat
    BY StoreAssumption
  <2>4. store'[target[a]] = AcquireLeaseOn(store[target[a]], a, ttl, now).rec
    BY <1>1, <1>2 DEF AcquireLease
  <2>5. /\ store'[target[a]] \in Record /\ store'[target[a]].owner = a
        /\ store'[target[a]].status = "resuming"
    BY <1>1, <1>2, <2>3, <2>4, AcquireFacts DEF AcquireLease
  <2> QED BY <1>1, <1>2, <2>2, <2>5 DEF AcquireLease, Attempt
<1> QED BY <1>2, QuietGrows DEF LeaseThen

\* TryComplete ends the lease of the attempt, if it still has it.
LEMMA TryCompleteFacts ==
  ASSUME ResumeIInv, NEW a \in Attempt, pc[a] # "idle", TryComplete(a)
  PROVE  /\ Grows
         /\ Goto(a, "returned")
         /\ minted' = minted /\ now' = now
         /\ \A id \in RecordId \ {target[a]} : store'[id] = store[id]
         /\ store'[target[a]].owner # a
         /\ store'[target[a]] # store[target[a]] => store'[target[a]].owner = NoOwner
<1>1. /\ a \in Owner /\ target[a] \in RecordId /\ IInv
      /\ store \in [RecordId -> Record \cup {Absent}] /\ store[target[a]] \in Record
      /\ Exists(target[a])
  BY DEF ResumeIInv, Started, Attempt, IInv, TypeOK, Exists
<1>2. CASE OwnsLease(store[target[a]], a)
  <2>1. Complete(target[a], a) /\ Goto(a, "returned")
    BY <1>2 DEF TryComplete
  <2>2. store'[target[a]] = EndLease(store[target[a]], "completed")
    BY <1>1, <2>1, CompleteFacts DEF Complete
  <2>3. store'[target[a]].owner = NoOwner
    BY <1>1, <2>2, EndFacts
  <2>4. /\ minted' = minted /\ now' = now
        /\ \A id \in RecordId \ {target[a]} : store'[id] = store[id]
    BY <1>1, <2>1 DEF Complete
  <2> QED BY <1>1, <2>1, <2>3, <2>4, OperationGrows, LogicAssumption
<1>3. CASE ~OwnsLease(store[target[a]], a)
  <2>1. UNCHANGED vars /\ Goto(a, "returned")
    BY <1>3 DEF TryComplete
  <2>2. store[target[a]].owner # a
    BY <1>1, <1>3, LogicAssumption DEF OwnsLease, IInv, LeaseShape
  <2> QED BY <2>1, <2>2, QuietGrows DEF vars
<1> QED BY <1>2, <1>3

\* ReleaseLease of an attempt does the same.
LEMMA ReleaseStep ==
  ASSUME ResumeIInv, NEW a \in Attempt, Release(a)
  PROVE  /\ Grows
         /\ minted' = minted /\ now' = now
         /\ \A id \in RecordId \ {target[a]} : store'[id] = store[id]
         /\ store'[target[a]].owner # a
         /\ store'[target[a]] # store[target[a]] => store'[target[a]].owner = NoOwner
<1>1. /\ a \in Owner /\ target[a] \in RecordId /\ IInv
      /\ store \in [RecordId -> Record \cup {Absent}] /\ store[target[a]] \in Record
      /\ Exists(target[a])
  BY DEF ResumeIInv, Started, Attempt, IInv, TypeOK, Exists, Release
<1>2. CASE OwnsLease(store[target[a]], a)
  <2>1. ReleaseLease(target[a], a)
    BY <1>2 DEF Release
  <2>2. store'[target[a]] = EndLease(store[target[a]], "ready")
    BY <1>1, <2>1, ReleaseFacts DEF ReleaseLease
  <2>3. store'[target[a]].owner = NoOwner
    BY <1>1, <2>2, EndFacts
  <2>4. /\ minted' = minted /\ now' = now
        /\ \A id \in RecordId \ {target[a]} : store'[id] = store[id]
    BY <1>1, <2>1 DEF ReleaseLease
  <2> QED BY <1>1, <2>1, <2>3, <2>4, OperationGrows, LogicAssumption
<1>3. CASE ~OwnsLease(store[target[a]], a)
  <2>1. UNCHANGED vars
    BY <1>3 DEF Release
  <2>2. store[target[a]].owner # a
    BY <1>1, <1>3, LogicAssumption DEF OwnsLease, IInv, LeaseShape
  <2> QED BY <2>1, <2>2, QuietGrows DEF vars
<1> QED BY <1>2, <1>3

\* A policy is part of the metadata Create accepts.
LEMMA MetaFacts ==
  ASSUME NEW old \in RecordId \cup {NoRecord}, NEW fp \in Fingerprint \cup {NoFingerprint}
  PROVE  MetaOf(old, fp) \in Meta /\ MetaOf(old, fp).supersedes = old
BY ResumeAssumption DEF MetaOf

\* Every step of ResumeInterrupt and of its host is a step of the store.
LEMMA StepGrows ==
  ASSUME ResumeIInv, [ResumeNext]_resumeVars
  PROVE  Grows
<1>1. IInv
  BY DEF ResumeIInv
<1>2. \A fp \in Fingerprint : Flagged[fp] \in SUBSET ToolCall
  BY ResumeAssumption
<1>3. policy \in Fingerprint
  BY DEF ResumeIInv, ResumeTypeOK
<1>4. ASSUME NEW a \in Attempt, pc[a] # "idle"
      PROVE  target[a] \in RecordId /\ Exists(target[a])
  BY <1>4 DEF ResumeIInv, Started
<1>5. CASE Tock
  <2>1. [Next]_vars /\ store' = store
    BY <1>5 DEF Tock, Tick, Next
  <2> QED BY <2>1 DEF Grows, Exists
<1>6. ASSUME NEW fp \in Fingerprint, ChangePolicy(fp)
      PROVE  Grows
  BY <1>6, QuietGrows DEF ChangePolicy
<1>7. ASSUME NEW id \in RecordId, NEW fp \in Fingerprint \cup {NoFingerprint}, Suspend(id, fp)
      PROVE  Grows
  BY <1>1, <1>2, <1>3, <1>7, MetaFacts, OperationGrows DEF Suspend
<1>8. ASSUME NEW id \in RecordId, NEW ds \in Batches, HostDecides(id, ds)
      PROVE  Grows
  BY <1>1, <1>8, OperationGrows DEF HostDecides
<1>9. ASSUME NEW a \in Attempt, Submit(a)
      PROVE  Grows
  <2>1. target[a] \in RecordId /\ batch[a] \in Batches
    BY <1>4, <1>9 DEF Submit, ResumeIInv, ResumeTypeOK
  <2>2. SubmitDecisions(target[a], batch[a]) \/ UNCHANGED vars
    BY <1>9 DEF Submit
  <2> QED BY <1>1, <2>1, <2>2, OperationGrows, QuietGrows
<1>10. ASSUME NEW a \in Attempt, Finish(a) \/ Acquire(a) \/ SupAcquire(a)
      PROVE  Grows
  <2>1. pc[a] # "idle"
    BY <1>10 DEF Finish, Acquire, SupAcquire
  <2>2. (\E l, r : LeaseThen(a, l, r)) \/ UNCHANGED vars
    BY <1>10 DEF Finish, Acquire, SupAcquire
  <2> QED BY <2>1, <2>2, LeaseThenFacts, QuietGrows
<1>11. ASSUME NEW a \in Attempt, FinishComplete(a) \/ CompleteRecord(a) \/ SupComplete(a)
      PROVE  Grows
  <2>1. pc[a] # "idle" /\ TryComplete(a)
    BY <1>11 DEF FinishComplete, CompleteRecord, SupComplete
  <2> QED BY <2>1, TryCompleteFacts
<1>12. ASSUME NEW a \in Attempt, Loop(a)
      PROVE  Grows
  <2>1. CASE UNCHANGED vars
    BY <2>1, QuietGrows
  <2>2. ASSUME NEW id \in Fresh, Create(id, MetaOf(NoRecord, policy), Flagged[policy])
        PROVE  Grows
    BY <1>1, <1>2, <1>3, <2>2, MetaFacts, OperationGrows DEF Fresh
  <2> QED BY <1>12, <2>1, <2>2 DEF Loop
<1>13. ASSUME NEW a \in Attempt, Release(a)
      PROVE  Grows
  BY <1>13, ReleaseStep
<1>14. ASSUME NEW a \in Attempt, SupCreate(a)
      PROVE  Grows
  <2>1. PICK id \in Fresh : Create(id, MetaOf(target[a], newPolicy[a]), Flagged[newPolicy[a]])
    BY <1>14 DEF SupCreate
  <2>2. target[a] \in RecordId /\ newPolicy[a] \in Fingerprint /\ id \in RecordId
    BY <1>4, <1>14 DEF SupCreate, ResumeIInv, Started, Fresh
  <2> QED BY <1>1, <1>2, <2>1, <2>2, MetaFacts, OperationGrows
<1>15. ASSUME NEW a \in Attempt,
             \/ \E id \in RecordId, ds \in RequestBatches : Begin(a, id, ds)
             \/ Lookup(a) \/ Classify(a) \/ Compat(a) \/ Exec(a) \/ SupLookup(a)
             \/ CallFails(a) \/ Crash(a)
      PROVE  Grows
  BY <1>15, QuietGrows
     DEF Begin, Lookup, Classify, Compat, Exec, SupLookup, CallFails, Crash
<1>16. CASE UNCHANGED resumeVars
  BY <1>16, QuietGrows DEF resumeVars
<1> QED
  BY <1>5, <1>6, <1>7, <1>8, <1>9, <1>10, <1>11, <1>12, <1>13, <1>14, <1>15, <1>16
     DEF ResumeNext

-----------------------------------------------------------------------------
\* Steps of the attempts.

\* What a step does to a record that is there.
LEMMA RecordKept ==
  ASSUME ResumeIInv, Grows, NEW id \in RecordId, Exists(id)
  PROVE  /\ store'[id] # Absent
         /\ store[id] \in Record
         /\ store'[id].meta = store[id].meta
         /\ store'[id].pending = store[id].pending
         /\ Extends(store[id], store'[id])
<1>1. IInv /\ [Next]_vars /\ store'[id] # Absent /\ Kept(id) /\ store[id] \in Record
  BY DEF ResumeIInv, Grows, Kept, IInv, TypeOK, Exists
<1>2. store'[id] = store[id] \/ Moved(store[id], store'[id])
  BY <1>1, StepMoves
<1> QED BY <1>1, <1>2 DEF Moved, Extends, Exists

\* A record that has a successor keeps it.
LEMMA SuccessorsGrow ==
  ASSUME ResumeIInv, Grows, NEW id
  PROVE  Successors(id) \subseteq Successors(id)'
BY RecordKept DEF Successors, Exists

\* A step of somebody else, or of the host.
Same(b) ==
  /\ pc'[b] = pc[b] /\ target'[b] = target[b] /\ snap'[b] = snap[b]
  /\ newPolicy'[b] = newPolicy[b] /\ executed'[b] = executed[b]
  /\ b \in successorAtStart' <=> b \in successorAtStart

AttemptOK(b) == Started(b) /\ SnapDecided(b) /\ Approved(b) /\ Obeying(b)

\* Records only gain verdicts and successors, so an attempt's copy stays true.
LEMMA AttemptStable ==
  ASSUME ResumeIInv, Grows, NEW b \in Attempt, Same(b)
  PROVE  AttemptOK(b)'
<1>1. AttemptOK(b)
  BY DEF ResumeIInv, AttemptOK
<1>2. CASE pc[b] = "idle"
  BY <1>1, <1>2 DEF AttemptOK, Started, SnapDecided, Approved, Obeying, Same, Over
<1>3. CASE pc[b] # "idle"
  <2> DEFINE id == target[b]
             old == store[id]
             new == store'[id]
  <2>1. /\ id \in RecordId /\ Exists(id) /\ new # Absent
        /\ old \in Record /\ new.pending = old.pending /\ Extends(old, new)
    <3>1. id \in RecordId /\ Exists(id)
      BY <1>1, <1>3 DEF AttemptOK, Started
    <3> QED BY <3>1, RecordKept
  <2>2. old.pending \subseteq ToolCall
    BY <2>1 DEF Record
  <2>3. \A c \in old.pending : old.decisions[c] # Undecided => new.decisions[c] = old.decisions[c]
    BY <2>1, <2>2 DEF Extends
  <2>4. Started(b)'
    BY <1>1, <1>3, <2>1 DEF AttemptOK, Started, Same, Exists
  <2>5. SnapDecided(b)'
    BY <1>1, <1>3, <2>1, <2>3 DEF AttemptOK, SnapDecided, Same
  <2>6. Approved(b)'
    BY <1>1, <1>3, <2>1, <2>3, ResumeAssumption DEF AttemptOK, Approved, AllDecided, Same
  <2>7. Obeying(b)'
    BY <1>1, <1>3, <2>1, SuccessorsGrow DEF AttemptOK, Obeying, Same
  <2> QED BY <2>4, <2>5, <2>6, <2>7 DEF AttemptOK
<1> QED BY <1>2, <1>3

\* A step of attempt a that leaves its record and what it ran alone.
LEMMA AttemptMoves ==
  ASSUME ResumeIInv, Grows, NEW a \in Attempt, pc[a] # "idle",
         target' = target, executed' = executed,
         successorAtStart' = successorAtStart,
         pc'[a] # "idle",
         pc'[a] \in {"supAcquire", "supLookup", "supCreate"} => newPolicy'[a] \in Fingerprint,
         pc'[a] = "compat" => /\ snap'[a] = View(store'[target[a]])
                              /\ AllDecided(store'[target[a]].pending, store'[target[a]].decisions),
         pc'[a] = "exec" => pc[a] = "compat" /\ snap'[a] = snap[a],
         (Successors(target[a]) # {} /\ pc[a] \in {"submit", "lookup", "finish", "finishComplete"} \cup Over)
            => pc'[a] \in {"submit", "lookup", "finish", "finishComplete"} \cup Over
  PROVE  AttemptOK(a)'
<1> DEFINE id == target[a]
           old == store[id]
           new == store'[id]
<1>1. AttemptOK(a)
  BY DEF ResumeIInv, AttemptOK
<1>2. /\ id \in RecordId /\ Exists(id) /\ new # Absent
      /\ old \in Record /\ new.pending = old.pending /\ Extends(old, new)
  BY <1>1, RecordKept DEF AttemptOK, Started
<1>3. old.pending \subseteq ToolCall
  BY <1>2 DEF Record
<1>4. \A c \in old.pending : old.decisions[c] # Undecided => new.decisions[c] = old.decisions[c]
  BY <1>2, <1>3 DEF Extends
<1>5. Started(a)'
  BY <1>2 DEF Started, Exists
<1>6. SnapDecided(a)'
  <2>1. CASE pc'[a] = "compat"
    BY <1>2, <2>1 DEF SnapDecided, View, AllDecided
  <2>2. CASE pc'[a] = "exec"
    BY <1>1, <1>2, <1>4, <2>2 DEF AttemptOK, SnapDecided
  <2> QED BY <2>1, <2>2 DEF SnapDecided
<1>7. Approved(a)'
  BY <1>1, <1>2, <1>4, ResumeAssumption DEF AttemptOK, Approved, AllDecided
<1>8. Obeying(a)'
  BY <1>1, <1>2, SuccessorsGrow DEF AttemptOK, Obeying
<1> QED BY <1>5, <1>6, <1>7, <1>8 DEF AttemptOK

-----------------------------------------------------------------------------
\* Every step of ResumeInterrupt, attempt by attempt.

Snapshot == [status : Status, meta : Meta, pending : SUBSET ToolCall,
             decisions : [ToolCall -> Verdict \cup {Undecided}]]

\* A copy of a record has the type of a copy.
LEMMA ViewType ==
  ASSUME NEW rec \in Record
  PROVE  View(rec) \in Snapshot
BY DEF View, Record, Snapshot

\* What Move does to its attempt, and to no other.
LEMMA MoveFacts ==
  ASSUME ResumeIInv, NEW a \in Attempt, NEW label \in Labels, NEW v \in Snapshot \cup {Absent},
         Move(a, label, v)
  PROVE  /\ pc' \in [Attempt -> Labels]
         /\ batch' \in [Attempt -> Batches]
         /\ snap' \in [Attempt -> Snapshot \cup {Absent}]
         /\ newPolicy' \in [Attempt -> Fingerprint \cup {NoFingerprint}]
         /\ pc'[a] = label
         /\ label \notin Over => snap'[a] = v /\ newPolicy'[a] = newPolicy[a]
         /\ \A b \in Attempt \ {a} :
              /\ pc'[b] = pc[b] /\ snap'[b] = snap[b] /\ newPolicy'[b] = newPolicy[b]
<1>1. <<>> \in Batches
  <2>1. 0 \in 0..MaxBatch /\ <<>> \in [1..0 -> Decision]
    BY StoreAssumption
  <2> QED BY <2>1 DEF Batches
<1> QED BY <1>1 DEF Move, ResumeIInv, ResumeTypeOK, Snapshot

\* The acting attempt and the others make up the invariant.
LEMMA AllAttempts ==
  ASSUME ResumeIInv, Grows, NEW a \in Attempt, AttemptOK(a)',
         \A b \in Attempt \ {a} : Same(b)
  PROVE  \A b \in Attempt : AttemptOK(b)'
BY AttemptStable

\* The types that the step of an attempt has to keep besides the store's.
AttemptTypes ==
  /\ pc \in [Attempt -> Labels]
  /\ batch \in [Attempt -> Batches]
  /\ snap \in [Attempt -> Snapshot \cup {Absent}]
  /\ newPolicy \in [Attempt -> Fingerprint \cup {NoFingerprint}]

\* ResumeTypeOK in parts.
LEMMA TypeParts ==
  ResumeTypeOK <=>
    /\ TypeOK /\ AttemptTypes
    /\ policy \in Fingerprint
    /\ target \in [Attempt -> RecordId \cup {NoRecord}]
    /\ executed \in [Attempt -> SUBSET ToolCall]
    /\ unended \in SUBSET Attempt
    /\ overdue \in SUBSET (Attempt \X RecordId)
    /\ successorAtStart \in SUBSET Attempt
BY DEF ResumeTypeOK, AttemptTypes, Snapshot

\* Attempt a takes its next step: it has the types, keeps its own part of the
\* invariant and leaves the other attempts alone.
StepOf(a) ==
  /\ AttemptTypes'
  /\ AttemptOK(a)'
  /\ \A b \in Attempt \ {a} : Same(b)

\* A step that only moves on.
LEMMA MoveSteps ==
  ASSUME ResumeIInv, Grows, NEW a \in Attempt, NEW label \in Labels \ {"idle"},
         NEW v \in Snapshot \cup {Absent}, Move(a, label, v),
         pc[a] \notin Over \cup {"idle"}, UNCHANGED <<target, executed, successorAtStart>>,
         label \in {"supAcquire", "supLookup", "supCreate"} =>
           pc[a] \in {"supAcquire", "supLookup", "supCreate"},
         label = "compat" => /\ v = View(store'[target[a]])
                             /\ AllDecided(store'[target[a]].pending, store'[target[a]].decisions),
         label = "exec" => pc[a] = "compat" /\ v = snap[a],
         (Successors(target[a]) # {} /\ pc[a] \in {"submit", "lookup", "finish", "finishComplete"})
            => label \in {"submit", "lookup", "finish", "finishComplete"} \cup Over
  PROVE  StepOf(a)
<1>1. /\ AttemptTypes' /\ pc'[a] = label /\ \A b \in Attempt \ {a} : Same(b)
      /\ label \notin Over => snap'[a] = v /\ newPolicy'[a] = newPolicy[a]
  BY MoveFacts DEF AttemptTypes, Same
<1>2. /\ target' = target /\ executed' = executed /\ successorAtStart' = successorAtStart
      /\ label \in {"supAcquire", "supLookup", "supCreate"} => newPolicy'[a] \in Fingerprint
  BY <1>1 DEF ResumeIInv, Started, Over
<1>3. AttemptOK(a)'
  <2>1. label \in {"compat", "exec"} => snap'[a] = v
    BY <1>1 DEF Over
  <2>2. pc[a] # "idle" /\ pc[a] \notin Over
    OBVIOUS
  <2> QED BY <1>1, <1>2, <2>1, <2>2, AttemptMoves
<1> QED BY <1>1, <1>3 DEF StepOf

\* ResumeInterrupt reads the record.
LEMMA BeginStep ==
  ASSUME ResumeIInv, NEW a \in Attempt, NEW id \in RecordId, NEW ds \in RequestBatches,
         Begin(a, id, ds)
  PROVE  StepOf(a)
<1>1. /\ store[id] \in Record /\ Exists(id) /\ ds \in Batches
      /\ store[id].status \in Status
  BY DEF Begin, ResumeIInv, IInv, TypeOK, Exists, RequestBatches, Record
<1>2. View(store[id]) \in Snapshot
  BY <1>1, ViewType
<1>3. PICK label \in {"submit", "lookup", "returned"} :
        /\ pc' = [pc EXCEPT ![a] = label]
        /\ snap' = [snap EXCEPT ![a] = IF label \in Over THEN Absent ELSE View(store[id])]
        /\ batch' = [batch EXCEPT ![a] = ds]
        /\ target' = [target EXCEPT ![a] = id]
  BY DEF Begin, AfterRead
<1>4. AttemptTypes'
  BY <1>1, <1>2, <1>3 DEF Begin, AttemptTypes, ResumeIInv, ResumeTypeOK, Snapshot, Labels
<1>5. \A b \in Attempt \ {a} : Same(b)
  BY <1>3 DEF Begin, Same, ResumeIInv, ResumeTypeOK
<1>6. /\ pc'[a] = label /\ target'[a] = id /\ executed'[a] = {} /\ store' = store
      /\ a \notin successorAtStart
  BY <1>3 DEF Begin, vars, ResumeIInv, ResumeTypeOK, Started
<1>7. Started(a)' /\ SnapDecided(a)' /\ Approved(a)'
  BY <1>1, <1>6 DEF Started, SnapDecided, Approved, Exists
<1>8. Obeying(a)'
  BY <1>1, <1>6 DEF Begin, Obeying, Successors, Exists, Over
<1> QED BY <1>4, <1>5, <1>7, <1>8 DEF StepOf, AttemptOK

\* applyDecisions returns a record, also when it stops at an error.
LEMMA AppliedRecord ==
  ASSUME NEW rec \in Record, NEW ds \in Batches
  PROVE  ApplyDecisions(rec, ds).rec \in Record
BY BatchType, CommitAuditFacts DEF ApplyDecisions

\* The execute path runs what the copy approves.
LEMMA ExecStep ==
  ASSUME ResumeIInv, Grows, NEW a \in Attempt, Exec(a)
  PROVE  StepOf(a)
<1>1. /\ pc[a] = "exec" /\ Goto(a, "loop") /\ UNCHANGED <<vars, target, successorAtStart>>
      /\ executed' = [executed EXCEPT ![a] = ToExecute(snap[a])]
  BY DEF Exec, history
<1>2. "loop" \in Labels /\ snap[a] \in Snapshot \cup {Absent}
  BY DEF Labels, ResumeIInv, ResumeTypeOK, Snapshot
<1>3. /\ AttemptTypes' /\ pc'[a] = "loop"
      /\ \A b \in Attempt \ {a} : pc'[b] = pc[b] /\ snap'[b] = snap[b] /\ newPolicy'[b] = newPolicy[b]
  BY <1>1, <1>2, MoveFacts DEF Goto, AttemptTypes
<1>4. \A b \in Attempt \ {a} : Same(b)
  BY <1>1, <1>3 DEF Same, ResumeIInv, ResumeTypeOK
<1>5. executed'[a] = ToExecute(snap[a]) /\ target'[a] = target[a] /\ store' = store
  BY <1>1 DEF ResumeIInv, ResumeTypeOK, vars
<1>6. Started(a) /\ SnapDecided(a) /\ Obeying(a)
  BY DEF ResumeIInv
<1>7. Approved(a)'
  BY <1>1, <1>5, <1>6 DEF Approved, SnapDecided, ToExecute, AllDecided
<1>8. Started(a)' /\ SnapDecided(a)'
  BY <1>1, <1>3, <1>5, <1>6 DEF Started, SnapDecided, Exists
<1>9. Obeying(a)'
  BY <1>1, <1>6 DEF Obeying, Over
<1> QED BY <1>3, <1>4, <1>7, <1>8, <1>9 DEF StepOf, AttemptOK

\* A lease is granted on a record that has every verdict.
LEMMA LeaseStep ==
  ASSUME ResumeIInv, NEW a \in Attempt, Rest, NEW label, NEW refused,
         \/ pc[a] = "finish" /\ label = "finishComplete" /\ refused = "returned"
         \/ pc[a] = "acquire" /\ label = "compat" /\ refused = "failed"
         \/ pc[a] = "supAcquire" /\ label = "supLookup" /\ refused = "failed",
         LeaseThen(a, label, refused)
  PROVE  StepOf(a)
<1> DEFINE new == store'[target[a]]
<1>1. /\ Grows /\ pc[a] \notin Over \cup {"idle"} /\ target[a] \in RecordId
      /\ \/ /\ new \in Record /\ new.status = "resuming"
            /\ Move(a, label, View(new))
         \/ UNCHANGED vars /\ Goto(a, refused)
  BY LeaseThenFacts DEF ResumeIInv, Started, Over
<1>2. /\ label \in Labels \ {"idle"} /\ refused \in {"returned", "failed"}
      /\ refused \in Labels \ {"idle"} /\ snap[a] \in Snapshot \cup {Absent}
  BY DEF Labels, ResumeIInv, ResumeTypeOK, Snapshot
<1>3. UNCHANGED <<target, executed, successorAtStart>>
  BY DEF Rest, history
<1>4. IInv'
  BY <1>1, NextIInv DEF Grows, ResumeIInv
<1>5. CASE new \in Record /\ new.status = "resuming" /\ Move(a, label, View(new))
  <2>1. new # Absent
    BY <1>5, StoreAssumption
  <2>2. AllDecided(new.pending, new.decisions)
    BY <1>1, <1>4, <1>5, <2>1 DEF IInv, DecidedBeforeReady, Exists, AllDecided
  <2>3. View(new) \in Snapshot \cup {Absent}
    BY <1>5, ViewType
  <2> QED BY <1>1, <1>2, <1>3, <1>5, <2>2, <2>3, MoveSteps DEF Over
<1>6. CASE Goto(a, refused)
  BY <1>1, <1>2, <1>3, <1>6, MoveSteps DEF Goto, Over
<1> QED BY <1>1, <1>5, <1>6

\* Every step of an attempt.
LEMMA AttemptStep ==
  ASSUME ResumeIInv, Grows, NEW a \in Attempt,
         \/ Submit(a) \/ Lookup(a) \/ Finish(a) \/ FinishComplete(a)
         \/ Classify(a) \/ Acquire(a) \/ Compat(a) \/ Loop(a)
         \/ CompleteRecord(a) \/ Release(a) \/ SupAcquire(a) \/ SupLookup(a)
         \/ SupCreate(a) \/ SupComplete(a)
         \/ CallFails(a) \/ Crash(a)
  PROVE  StepOf(a)
<1>1. snap[a] \in Snapshot \cup {Absent}
  BY DEF ResumeIInv, ResumeTypeOK, Snapshot
<1>2. ASSUME NEW label \in Labels \ {"idle", "compat", "exec", "supAcquire"}, Goto(a, label),
             pc[a] \notin Over \cup {"idle"},
             UNCHANGED <<target, executed, successorAtStart>>,
             label \in {"supLookup", "supCreate"} => pc[a] \in {"supAcquire", "supLookup", "supCreate"},
             (Successors(target[a]) # {} /\ pc[a] \in {"submit", "lookup", "finish", "finishComplete"})
               => label \in {"finish", "finishComplete"} \cup Over
      PROVE  StepOf(a)
  BY <1>1, <1>2, MoveSteps DEF Goto
<1> USE DEF Rest, history, Labels, Over
<1>3. CASE Submit(a)
  <2> DEFINE r == ApplyDecisions(store[target[a]], batch[a])
  <2>1. pc[a] = "submit" /\ target[a] \in RecordId /\ store[target[a]] \in Record /\ batch[a] \in Batches
    BY <1>3 DEF Submit, ResumeIInv, ResumeTypeOK, Started, IInv, TypeOK, Exists
  <2>2. r.rec \in Record
    BY <2>1, AppliedRecord
  <2>3. View(r.rec) \in Snapshot \cup {Absent}
    BY <2>2, ViewType
  <2>4. \E label \in {"failed", "returned", "lookup"} : Move(a, label, View(r.rec))
    BY <1>3 DEF Submit, AfterRead
  <2>5. UNCHANGED <<target, executed, successorAtStart>>
    BY <1>3 DEF Submit
  <2> HIDE DEF r
  <2> QED BY <2>1, <2>3, <2>4, <2>5, MoveSteps
<1>4. CASE Lookup(a)
  BY <1>2, <1>4 DEF Lookup
<1>5. CASE Finish(a)
  BY <1>2, <1>5, LeaseStep DEF Finish
<1>6. CASE FinishComplete(a) \/ CompleteRecord(a) \/ SupComplete(a)
  BY <1>2, <1>6 DEF FinishComplete, CompleteRecord, SupComplete, TryComplete
<1>7. CASE Classify(a)
  <2>1. CASE Goto(a, "failed")
    BY <1>2, <1>7, <2>1 DEF Classify
  <2>2. CASE Goto(a, "acquire")
    BY <1>2, <1>7, <2>2 DEF Classify
  <2>3. CASE /\ newPolicy' = [newPolicy EXCEPT ![a] = policy]
             /\ pc' = [pc EXCEPT ![a] = "supAcquire"]
             /\ UNCHANGED <<snap, batch>>
    <3>1. /\ AttemptTypes' /\ pc'[a] = "supAcquire" /\ newPolicy'[a] \in Fingerprint
          /\ \A b \in Attempt \ {a} : Same(b)
      BY <1>7, <2>3 DEF Classify, AttemptTypes, Same, ResumeIInv, ResumeTypeOK, Snapshot
    <3>2. AttemptOK(a)'
      BY <1>7, <3>1, AttemptMoves DEF Classify
    <3> QED BY <3>1, <3>2 DEF StepOf
  <2> QED BY <1>7, <2>1, <2>2, <2>3 DEF Classify
<1>8. CASE Acquire(a) \/ SupAcquire(a)
  BY <1>8, LeaseStep DEF Acquire, SupAcquire
<1>9. CASE Compat(a)
  <2>1. CASE Goto(a, "exec")
    BY <1>1, <1>9, <2>1, MoveSteps DEF Compat, Goto
  <2>2. CASE Goto(a, "release")
    BY <1>2, <1>9, <2>2 DEF Compat
  <2> QED BY <1>9, <2>1, <2>2 DEF Compat
<1>10. CASE Loop(a)
  BY <1>2, <1>10 DEF Loop
<1>11. CASE Release(a)
  BY <1>2, <1>11 DEF Release
<1>12. CASE SupLookup(a)
  BY <1>2, <1>12 DEF SupLookup
<1>13. CASE SupCreate(a)
  BY <1>2, <1>13 DEF SupCreate
<1>14. CASE CallFails(a)
  BY <1>2, <1>14 DEF CallFails
<1>15. CASE Crash(a)
  BY <1>2, <1>15 DEF Crash
<1> QED
  BY <1>3, <1>4, <1>5, <1>6, <1>7, <1>8, <1>9, <1>10, <1>11, <1>12, <1>13, <1>14, <1>15

\* The host's steps touch no attempt.
HostStep ==
  \/ Tock
  \/ \E fp \in Fingerprint : ChangePolicy(fp)
  \/ \E id \in RecordId :
       \/ \E fp \in Fingerprint \cup {NoFingerprint} : Suspend(id, fp)
       \/ \E ds \in Batches \ {<<>>} : HostDecides(id, ds)
  \/ UNCHANGED resumeVars

\* Every step keeps the types and every attempt's own invariant.
LEMMA StepAttempts ==
  ASSUME ResumeIInv, [ResumeNext]_resumeVars
  PROVE  ResumeTypeOK' /\ \A b \in Attempt : AttemptOK(b)'
<1>1. Grows
  BY StepGrows
<1>2. TypeOK'
  BY <1>1, NextIInv DEF Grows, ResumeIInv, IInv
<1>3. CASE HostStep
  <2>1. UNCHANGED <<attemptVars, history>> /\ policy' \in Fingerprint
    BY <1>3 DEF HostStep, Tock, ChangePolicy, Suspend, HostDecides, resumeVars,
       ResumeIInv, ResumeTypeOK
  <2>2. \A b \in Attempt : Same(b)
    BY <2>1 DEF attemptVars, history, Same
  <2>3. ResumeTypeOK'
    BY <1>2, <2>1 DEF attemptVars, history, ResumeIInv, ResumeTypeOK
  <2> QED BY <1>1, <2>2, <2>3, AttemptStable
<1>4. ASSUME NEW a \in Attempt, StepOf(a),
             policy' = policy,
             target' \in [Attempt -> RecordId \cup {NoRecord}],
             executed' \in [Attempt -> SUBSET ToolCall],
             unended' \in SUBSET Attempt,
             overdue' \in SUBSET (Attempt \X RecordId),
             successorAtStart' \in SUBSET Attempt
      PROVE  ResumeTypeOK' /\ \A b \in Attempt : AttemptOK(b)'
  <2>1. ResumeTypeOK'
    BY <1>2, <1>4 DEF StepOf, AttemptTypes, ResumeIInv, ResumeTypeOK, Snapshot
  <2> QED BY <1>1, <1>4, <2>1, AllAttempts DEF StepOf
<1>5. ASSUME NEW a \in Attempt, NEW id \in RecordId, NEW ds \in RequestBatches, Begin(a, id, ds)
      PROVE  ResumeTypeOK' /\ \A b \in Attempt : AttemptOK(b)'
  BY <1>4, <1>5, BeginStep DEF Begin, ResumeIInv, ResumeTypeOK
<1>6. ASSUME NEW a \in Attempt, Exec(a)
      PROVE  ResumeTypeOK' /\ \A b \in Attempt : AttemptOK(b)'
  <2>1. executed' \in [Attempt -> SUBSET ToolCall]
    BY <1>6 DEF Exec, ToExecute, ResumeIInv, ResumeTypeOK
  <2> QED BY <1>1, <1>4, <1>6, <2>1, ExecStep DEF Exec, history, ResumeIInv, ResumeTypeOK
<1>7. ASSUME NEW a \in Attempt, SupCreate(a) \/ CallFails(a)
      PROVE  ResumeTypeOK' /\ \A b \in Attempt : AttemptOK(b)'
  <2>1. /\ policy' = policy /\ target' = target /\ executed' = executed
        /\ successorAtStart' = successorAtStart
        /\ unended' \in SUBSET Attempt
    BY <1>7 DEF SupCreate, CallFails, history, ResumeIInv, ResumeTypeOK
  <2>2. overdue' \in SUBSET (Attempt \X RecordId)
    BY <1>7 DEF SupCreate, CallFails, history, ResumeIInv, ResumeTypeOK, Started
  <2> QED BY <1>1, <1>4, <1>7, <2>1, <2>2, AttemptStep DEF ResumeIInv, ResumeTypeOK
<1>8. ASSUME NEW a \in Attempt,
             \/ Submit(a) \/ Lookup(a) \/ Finish(a) \/ FinishComplete(a)
             \/ Classify(a) \/ Acquire(a) \/ Compat(a) \/ Loop(a)
             \/ CompleteRecord(a) \/ Release(a) \/ SupAcquire(a) \/ SupLookup(a)
             \/ SupComplete(a) \/ Crash(a)
      PROVE  ResumeTypeOK' /\ \A b \in Attempt : AttemptOK(b)'
  <2>1. Rest
    BY <1>8 DEF Submit, Lookup, Finish, FinishComplete, Classify, Acquire, Compat, Loop,
       CompleteRecord, Release, SupAcquire, SupLookup, SupComplete, Crash
  <2> QED BY <1>1, <1>4, <1>8, <2>1, AttemptStep DEF Rest, history, ResumeIInv, ResumeTypeOK
<1> QED BY <1>3, <1>5, <1>6, <1>7, <1>8 DEF ResumeNext, HostStep

-----------------------------------------------------------------------------
\* Leases.

\* A lease on record after the step was there before it, or attempt a took it.
NewOwner(a) ==
  \A id \in RecordId, b \in Attempt :
    (store'[id] # Absent /\ store'[id].owner = b) =>
      \/ Exists(id) /\ store[id].owner = b
      \/ b = a /\ target[a] = id /\ pc'[a] \in Leased

\* The operations that grant nothing.
LEMMA NoGrant ==
  ASSUME ResumeIInv, NEW a,
         \/ UNCHANGED vars
         \/ Tick
         \/ \E id \in RecordId, meta \in Meta, pending \in SUBSET ToolCall : Create(id, meta, pending)
         \/ \E id \in RecordId, ds \in Batches : SubmitDecisions(id, ds)
  PROVE  NewOwner(a)
<1>1. IInv /\ store \in [RecordId -> Record \cup {Absent}] /\ \A b \in Attempt : b # NoOwner
  BY LogicAssumption DEF ResumeIInv, IInv, TypeOK, Attempt
<1>2. CASE UNCHANGED vars \/ Tick
  BY <1>2 DEF vars, Tick, NewOwner, Exists
<1>3. ASSUME NEW id \in RecordId, NEW meta \in Meta, NEW pending \in SUBSET ToolCall,
             Create(id, meta, pending)
      PROVE  NewOwner(a)
  <2>1. /\ NewRecord(meta, pending).owner = NoOwner
        /\ store' = [store EXCEPT ![id] = NewRecord(meta, pending)]
    BY <1>3, NewRecordFacts DEF Create
  <2> QED BY <1>1, <2>1 DEF NewOwner, Exists
<1>4. ASSUME NEW id \in RecordId, NEW ds \in Batches, SubmitDecisions(id, ds)
      PROVE  NewOwner(a)
  <2> DEFINE new == ApplyDecisions(store[id], ds).rec
  <2>1. /\ store[id] \in Record /\ Exists(id) /\ ds \in Seq(Decision)
        /\ ApplyDecisions(store[id], ds).committed # {}
        /\ store' = [store EXCEPT ![id] = new]
    BY <1>1, <1>4, BatchType DEF SubmitDecisions, Writable, Exists
  <2>2. new.owner = store[id].owner
    BY <2>1, SubmitFacts, CommitAuditFacts
  <2> HIDE DEF new
  <2> QED BY <1>1, <2>1, <2>2 DEF NewOwner, Exists
<1> QED BY <1>2, <1>3, <1>4

\* Attempt a moves on without leaving a lease behind.
LEMMA LeaseMoves ==
  ASSUME ResumeIInv, NEW a \in Attempt, pc[a] # "idle", pc'[a] # "idle",
         NewOwner(a), target' = target,
         (pc[a] \in Leased \cup {"crashed"} /\ store'[target[a]].owner = a)
            => pc'[a] \in Leased \cup {"crashed"} \/ a \in unended',
         unended \subseteq unended',
         \A b \in Attempt \ {a} : pc'[b] = pc[b]
  PROVE  \A b \in Attempt : LeaseKept(b)'
<1> SUFFICES ASSUME NEW b \in Attempt, NEW id \in RecordId,
                    store'[id] # Absent, store'[id].owner = b
             PROVE  /\ target[b] = id
                    /\ pc'[b] \in Leased \cup {"crashed"} \/ (b \in unended' /\ pc'[b] # "idle")
  BY DEF LeaseKept, Exists
<1>1. CASE Exists(id) /\ store[id].owner = b
  <2>1. /\ target[b] = id
        /\ pc[b] \in Leased \cup {"crashed"} \/ (b \in unended /\ pc[b] # "idle")
    BY <1>1 DEF ResumeIInv, LeaseKept
  <2> QED BY <1>1, <2>1
<1>2. CASE b = a /\ target[a] = id /\ pc'[a] \in Leased
  BY <1>2
<1> QED BY <1>1, <1>2 DEF NewOwner

\* An attempt that takes a lease goes where it will end it.
LEMMA LeaseThenKept ==
  ASSUME ResumeIInv, NEW a \in Attempt, Rest, NEW label \in Leased \cap Labels,
         NEW refused \in {"returned", "failed"},
         pc[a] \in {"finish", "acquire", "supAcquire"},
         LeaseThen(a, label, refused)
  PROVE  \A b \in Attempt : LeaseKept(b)'
<1>1. pc[a] # "idle" /\ pc[a] \notin Leased \cup {"crashed"} /\ target' = target /\ unended' = unended
  BY DEF Leased, Rest, history
<1>2. snap[a] \in Snapshot \cup {Absent} /\ refused \in Labels
  BY DEF ResumeIInv, ResumeTypeOK, Snapshot, Labels
<1>3. CASE UNCHANGED vars /\ Goto(a, refused)
  <2>1. pc'[a] = refused /\ \A b \in Attempt \ {a} : pc'[b] = pc[b]
    BY <1>2, <1>3, MoveFacts DEF Goto
  <2> QED BY <1>1, <1>3, <2>1, NoGrant, LeaseMoves
<1>4. CASE /\ store'[target[a]] \in Record
           /\ store'[target[a]].owner = a
           /\ \A id \in RecordId \ {target[a]} : store'[id] = store[id]
           /\ Move(a, label, View(store'[target[a]]))
  <2>1. View(store'[target[a]]) \in Snapshot \cup {Absent}
    BY <1>4, ViewType
  <2>2. pc'[a] = label /\ \A b \in Attempt \ {a} : pc'[b] = pc[b]
    BY <1>4, <2>1, MoveFacts
  <2>3. NewOwner(a)
    BY <1>4, <2>2 DEF NewOwner, Exists
  <2>4. pc'[a] # "idle"
    BY <2>2 DEF Leased
  <2> QED BY <1>1, <2>2, <2>3, <2>4, LeaseMoves
<1> QED BY <1>1, <1>3, <1>4, LeaseThenFacts

\* Every step keeps LeaseKept.
LEMMA StepLeaseKept ==
  ASSUME ResumeIInv, [ResumeNext]_resumeVars
  PROVE  \A b \in Attempt : LeaseKept(b)'
<1>1. ASSUME NEW a \in Attempt, NEW label \in Labels \ {"idle"}, Goto(a, label)
      PROVE  pc'[a] = label /\ pc'[a] # "idle" /\ \A b \in Attempt \ {a} : pc'[b] = pc[b]
  <2>1. snap[a] \in Snapshot \cup {Absent}
    BY DEF ResumeIInv, ResumeTypeOK, Snapshot
  <2> QED BY <1>1, <2>1, MoveFacts DEF Goto
<1>2. \A fp \in Fingerprint : Flagged[fp] \in SUBSET ToolCall
  BY ResumeAssumption
<1>3. policy \in Fingerprint
  BY DEF ResumeIInv, ResumeTypeOK
<1>4. CASE HostStep
  <2>1. UNCHANGED <<attemptVars, history>>
    BY <1>4 DEF HostStep, Tock, ChangePolicy, Suspend, HostDecides, resumeVars
  <2>2. ASSUME NEW a PROVE NewOwner(a)
    <3>1. ASSUME NEW id \in RecordId, NEW fp \in Fingerprint \cup {NoFingerprint}, Suspend(id, fp)
          PROVE  NewOwner(a)
      BY <1>2, <1>3, <3>1, MetaFacts, NoGrant DEF Suspend
    <3>2. ASSUME NEW id \in RecordId, NEW ds \in Batches, HostDecides(id, ds)
          PROVE  NewOwner(a)
      BY <3>2, NoGrant DEF HostDecides
    <3>3. CASE Tock \/ (\E fp \in Fingerprint : ChangePolicy(fp)) \/ UNCHANGED resumeVars
      BY <3>3, NoGrant DEF Tock, ChangePolicy, resumeVars
    <3> QED BY <1>4, <3>1, <3>2, <3>3 DEF HostStep
  <2>3. ASSUME NEW b \in Attempt, NEW id \in RecordId, store'[id] # Absent, store'[id].owner = b
        PROVE  /\ target[b] = id
               /\ pc[b] \in Leased \cup {"crashed"} \/ (b \in unended /\ pc[b] # "idle")
    <3>1. NewOwner("host")
      BY <2>2
    <3>2. CASE Exists(id) /\ store[id].owner = b
      BY <3>2 DEF ResumeIInv, LeaseKept
    <3>3. CASE target["host"] = id /\ b = "host" /\ pc'["host"] \in Leased
      <4>1. pc[b] \in Leased
        BY <2>1, <3>3 DEF attemptVars
      <4> QED BY <3>3, <4>1
    <3> QED BY <2>3, <3>1, <3>2, <3>3 DEF NewOwner
  <2> QED BY <2>1, <2>3 DEF LeaseKept, Exists, attemptVars, history
<1>5. ASSUME NEW a \in Attempt, NEW id \in RecordId, NEW ds \in RequestBatches, Begin(a, id, ds)
      PROVE  \A b \in Attempt : LeaseKept(b)'
  <2>1. /\ pc[a] = "idle" /\ store' = store /\ unended' = unended
        /\ \A b \in Attempt \ {a} : pc'[b] = pc[b] /\ target'[b] = target[b]
    BY <1>5 DEF Begin, vars, ResumeIInv, ResumeTypeOK
  <2> QED BY <2>1 DEF ResumeIInv, LeaseKept, Leased, Exists
<1>6. ASSUME NEW a \in Attempt, Finish(a) \/ Acquire(a) \/ SupAcquire(a)
      PROVE  \A b \in Attempt : LeaseKept(b)'
  <2>1. CASE Goto(a, "returned") /\ UNCHANGED vars /\ Rest /\ pc[a] = "finish"
    BY <1>1, <2>1, NoGrant, LeaseMoves DEF Rest, history, Leased, Labels
  <2>2. ASSUME NEW label \in Leased \cap Labels, NEW refused \in {"returned", "failed"},
               LeaseThen(a, label, refused)
        PROVE  \A b \in Attempt : LeaseKept(b)'
    BY <1>6, <2>2, LeaseThenKept DEF Finish, Acquire, SupAcquire
  <2>3. {"finishComplete", "compat", "supLookup"} \subseteq Leased \cap Labels
    BY DEF Leased, Labels
  <2> QED BY <1>6, <2>1, <2>2, <2>3 DEF Finish, Acquire, SupAcquire
<1>7. ASSUME NEW a \in Attempt, FinishComplete(a) \/ CompleteRecord(a) \/ SupComplete(a)
      PROVE  \A b \in Attempt : LeaseKept(b)'
  <2>1. TryComplete(a) /\ pc[a] # "idle" /\ Rest
    BY <1>7 DEF FinishComplete, CompleteRecord, SupComplete
  <2>2. /\ Goto(a, "returned") /\ store'[target[a]].owner # a
        /\ \A id \in RecordId \ {target[a]} : store'[id] = store[id]
        /\ store'[target[a]] # store[target[a]] => store'[target[a]].owner = NoOwner
    BY <2>1, TryCompleteFacts
  <2>3. NewOwner(a)
    <3>1. \A b \in Attempt : b # NoOwner
      BY LogicAssumption DEF Attempt
    <3>2. Exists(target[a])
      BY <2>1 DEF ResumeIInv, Started
    <3> QED BY <2>2, <3>1, <3>2 DEF NewOwner, Exists
  <2> QED BY <1>1, <2>1, <2>2, <2>3, LeaseMoves DEF Rest, history, Labels
<1>8. ASSUME NEW a \in Attempt, Release(a)
      PROVE  \A b \in Attempt : LeaseKept(b)'
  <2>1. pc[a] = "release" /\ Rest /\ Goto(a, "failed")
    BY <1>8 DEF Release
  <2>2. NewOwner(a)
    <3>1. \A b \in Attempt : b # NoOwner
      BY LogicAssumption DEF Attempt
    <3>2. Exists(target[a])
      BY <2>1 DEF ResumeIInv, Started
    <3> QED BY <1>8, <3>1, <3>2, ReleaseStep DEF NewOwner, Exists
  <2> QED BY <1>1, <1>8, <2>1, <2>2, LeaseMoves, ReleaseStep DEF Rest, history, Labels
<1>9. ASSUME NEW a \in Attempt, Submit(a)
      PROVE  \A b \in Attempt : LeaseKept(b)'
  <2>1. /\ pc[a] = "submit" /\ Rest
        /\ (target[a] \in RecordId /\ batch[a] \in Batches /\ SubmitDecisions(target[a], batch[a]))
             \/ UNCHANGED vars
    BY <1>9 DEF Submit, ResumeIInv, ResumeTypeOK, Started
  <2>2. NewOwner(a)
    BY <2>1, NoGrant
  <2>3. pc'[a] # "idle" /\ \A b \in Attempt \ {a} : pc'[b] = pc[b]
    BY <1>9 DEF Submit, Move, AfterRead, ResumeIInv, ResumeTypeOK
  <2> QED BY <2>1, <2>2, <2>3, LeaseMoves DEF Rest, history, Leased
<1>10. ASSUME NEW a \in Attempt, SupCreate(a)
      PROVE  \A b \in Attempt : LeaseKept(b)'
  <2>1. PICK id \in RecordId : Create(id, MetaOf(target[a], newPolicy[a]), Flagged[newPolicy[a]])
    BY <1>10 DEF SupCreate, Fresh
  <2>2. target[a] \in RecordId /\ newPolicy[a] \in Fingerprint
    BY <1>10 DEF SupCreate, ResumeIInv, Started
  <2>3. NewOwner(a)
    BY <1>2, <2>1, <2>2, MetaFacts, NoGrant
  <2> QED BY <1>1, <1>10, <2>3, LeaseMoves DEF SupCreate, history, Labels, Leased
<1>11. ASSUME NEW a \in Attempt, Loop(a)
      PROVE  \A b \in Attempt : LeaseKept(b)'
  <2>1. NewOwner(a)
    BY <1>2, <1>3, <1>11, MetaFacts, NoGrant DEF Loop, Fresh
  <2>2. pc'[a] \in {"complete", "release"} /\ \A b \in Attempt \ {a} : pc'[b] = pc[b]
    BY <1>1, <1>11 DEF Loop, Labels
  <2> QED BY <1>11, <2>1, <2>2, LeaseMoves DEF Loop, Rest, history, Leased
<1>12. ASSUME NEW a \in Attempt,
             \/ Lookup(a) \/ Classify(a) \/ Compat(a) \/ Exec(a) \/ SupLookup(a)
             \/ CallFails(a) \/ Crash(a)
      PROVE  \A b \in Attempt : LeaseKept(b)'
  <2>1. NewOwner(a) /\ target' = target /\ pc[a] # "idle"
    BY <1>12, NoGrant
       DEF Lookup, Classify, Compat, Exec, SupLookup, CallFails, Crash, Rest
  <2>2. /\ pc'[a] # "idle" /\ \A b \in Attempt \ {a} : pc'[b] = pc[b]
        /\ unended \subseteq unended'
        /\ pc[a] \in Leased \cup {"crashed"} => pc'[a] \in Leased \cup {"crashed"} \/ a \in unended'
    BY <1>12
       DEF Lookup, Classify, Compat, Exec, SupLookup, CallFails, Crash, Rest, history, Goto, Move,
           Leased, Ending, Over, ResumeIInv, ResumeTypeOK
  <2> QED BY <2>1, <2>2, LeaseMoves
<1> QED
  BY <1>4, <1>5, <1>6, <1>7, <1>8, <1>9, <1>10, <1>11, <1>12 DEF ResumeNext, HostStep

-----------------------------------------------------------------------------
\* Successors.

\* Records that a step creates supersede nothing.
NoNewSuccessor ==
  \A id \in RecordId :
    (~Exists(id) /\ store'[id] # Absent) => store'[id].meta.supersedes \notin RecordId

\* Only Create makes a record.
LEMMA NothingCreated ==
  ASSUME ResumeIInv, Grows, minted' = minted
  PROVE  NoNewSuccessor
<1>1. IInv /\ IInv'
  BY NextIInv DEF Grows, ResumeIInv
<1>2. ASSUME NEW id \in RecordId, NEW o \in Owner, ReleaseLease(id, o) \/ Complete(id, o)
      PROVE  NoNewSuccessor
  BY <1>1, <1>2 DEF ReleaseLease, Complete, Writable, Exists, NoNewSuccessor, IInv, TypeOK
<1>3. ASSUME NEW id \in RecordId, NEW ds \in Batches, SubmitDecisions(id, ds)
      PROVE  NoNewSuccessor
  BY <1>1, <1>3 DEF SubmitDecisions, Writable, Exists, NoNewSuccessor, IInv, TypeOK
<1>4. ASSUME NEW id \in RecordId, NEW o \in Owner, NEW ttl \in LeaseTTL, NEW t \in 1..now,
             AcquireLease(id, o, ttl, t)
      PROVE  NoNewSuccessor
  BY <1>1, <1>4 DEF AcquireLease, Writable, Exists, NoNewSuccessor, IInv, TypeOK
<1>5. ASSUME NEW id \in RecordId, Delete(id)
      PROVE  NoNewSuccessor
  BY <1>1, <1>5 DEF Delete, Exists, NoNewSuccessor, IInv, TypeOK
<1>6. ASSUME NEW id \in RecordId, NEW meta \in Meta, NEW pending \in SUBSET ToolCall,
             Create(id, meta, pending)
      PROVE  NoNewSuccessor
  BY <1>6 DEF Create
<1>7. CASE Tick \/ UNCHANGED vars
  BY <1>7 DEF Tick, vars, Exists, NoNewSuccessor
<1> QED BY <1>2, <1>3, <1>4, <1>5, <1>6, <1>7 DEF Grows, Next

\* A step creates no successor, or it is SupCreate: what its record says.
LEMMA CreatedFacts ==
  ASSUME ResumeIInv, NEW id \in RecordId, NEW meta \in Meta, NEW pending \in SUBSET ToolCall,
         Create(id, meta, pending)
  PROVE  /\ minted' = minted \cup {id} /\ id \notin minted
         /\ ~Exists(id)
         /\ store'[id].meta = meta /\ store'[id] # Absent
         /\ \A x \in RecordId \ {id} : store'[x] = store[x]
         /\ now' = now /\ granted' = granted
<1>1. store \in [RecordId -> Record \cup {Absent}] /\ id \notin minted /\ ~Exists(id)
  BY DEF ResumeIInv, IInv, TypeOK, FreshIds, Create
<1>2. NewRecord(meta, pending) \in Record /\ NewRecord(meta, pending).meta = meta
  BY NewRecordFacts DEF NewRecord, Create
<1> QED BY <1>1, <1>2, StoreAssumption DEF Create

\* What every step but SupCreate leaves to the successor look-up.
Quiet ==
  /\ NoNewSuccessor
  /\ IsFiniteSet(minted')
  /\ overdue' = overdue
  /\ now \in Nat /\ now' \in Nat /\ now <= now'
  /\ \A b \in Attempt : pc'[b] = "supCreate" =>
       /\ target'[b] = target[b] /\ target[b] \in RecordId
       /\ \/ pc[b] = "supCreate" /\ granted'[b] = granted[b]
          \/ Successors(target[b]) = {}
  /\ \A b \in Attempt : pc[b] \in {"supComplete"} \cup Over => pc'[b] \in {"supComplete"} \cup Over

\* Every step but SupCreate is quiet.
LEMMA QuietStep ==
  ASSUME ResumeIInv, [ResumeNext]_resumeVars
  PROVE  Quiet \/ \E a \in Attempt : SupCreate(a)
<1> DEFINE Waits(b) ==
      /\ pc'[b] = "supCreate" =>
           /\ target'[b] = target[b] /\ target[b] \in RecordId
           /\ pc[b] = "supCreate"
      /\ pc[b] \in {"supComplete"} \cup Over => pc'[b] \in {"supComplete"} \cup Over
<1>1. /\ Grows /\ IsFiniteSet(minted) /\ now \in Nat /\ policy \in Fingerprint
      /\ granted \in [Owner -> [RecordId -> Nat]] /\ Attempt = Owner
      /\ pc \in [Attempt -> Labels] /\ target \in [Attempt -> RecordId \cup {NoRecord}]
      /\ \A b \in Attempt : pc[b] # "idle" => target[b] \in RecordId
  BY StepGrows DEF ResumeIInv, FiniteHistory, IInv, TypeOK, ResumeTypeOK, Started, Attempt
<1>2. \A fp \in Fingerprint : Flagged[fp] \in SUBSET ToolCall
  BY ResumeAssumption
<1>3. ASSUME UNCHANGED vars \/ Tick \/ (\E id \in RecordId, ds \in Batches : SubmitDecisions(id, ds)),
             overdue' = overdue, \A b \in Attempt : Waits(b)
      PROVE  Quiet
  <2>1. minted' = minted /\ granted' = granted /\ now' \in Nat /\ now <= now'
    BY <1>1, <1>3 DEF vars, Tick, SubmitDecisions
  <2> QED BY <1>1, <1>3, <2>1, NothingCreated DEF Quiet
<1>4. ASSUME NEW id \in RecordId, NEW fp \in Fingerprint \cup {NoFingerprint},
             Create(id, MetaOf(NoRecord, fp), Flagged[policy]),
             overdue' = overdue, \A b \in Attempt : Waits(b)
      PROVE  Quiet
  <2>1. /\ MetaOf(NoRecord, fp) \in Meta /\ MetaOf(NoRecord, fp).supersedes \notin RecordId
        /\ Flagged[policy] \in SUBSET ToolCall
    <3>1. NoRecord \notin RecordId
      BY ResumeAssumption
    <3> QED BY <1>1, <1>2, <3>1, MetaFacts
  <2>2. /\ minted' = minted \cup {id} /\ ~Exists(id)
        /\ store'[id].meta = MetaOf(NoRecord, fp)
        /\ \A x \in RecordId \ {id} : store'[x] = store[x]
        /\ now' = now /\ granted' = granted
    BY <1>4, <2>1, CreatedFacts
  <2>3. NoNewSuccessor
    BY <2>1, <2>2 DEF NoNewSuccessor, Exists
  <2>4. IsFiniteSet(minted')
    BY <1>1, <2>2, FS_AddElement
  <2> QED BY <1>1, <1>4, <2>2, <2>3, <2>4 DEF Quiet
<1>5. CASE HostStep
  <2>1. UNCHANGED <<attemptVars, history>>
    BY <1>5 DEF HostStep, Tock, ChangePolicy, Suspend, HostDecides, resumeVars
  <2>2. overdue' = overdue /\ \A b \in Attempt : Waits(b)
    BY <1>1, <2>1 DEF attemptVars, history
  <2>3. ASSUME NEW id \in RecordId, NEW fp \in Fingerprint \cup {NoFingerprint}, Suspend(id, fp)
        PROVE  Quiet
    BY <1>4, <2>2, <2>3 DEF Suspend
  <2>4. CASE Tock \/ (\E fp \in Fingerprint : ChangePolicy(fp)) \/ UNCHANGED resumeVars
             \/ \E id \in RecordId, ds \in Batches : HostDecides(id, ds)
    BY <1>3, <2>2, <2>4 DEF Tock, ChangePolicy, resumeVars, HostDecides
  <2> QED BY <1>5, <2>3, <2>4 DEF HostStep
<1>6. ASSUME NEW a \in Attempt, NEW id \in RecordId, NEW ds \in RequestBatches, Begin(a, id, ds)
      PROVE  Quiet
  <2>1. UNCHANGED vars /\ overdue' = overdue /\ \A b \in Attempt : Waits(b)
    BY <1>1, <1>6 DEF Begin, AfterRead, Over
  <2> QED BY <1>3, <2>1
<1>7. ASSUME NEW a \in Attempt, Finish(a) \/ Acquire(a) \/ SupAcquire(a)
      PROVE  Quiet
  <2>1. /\ overdue' = overdue /\ target' = target
        /\ pc'[a] \notin {"supCreate"} /\ pc[a] \notin {"supComplete"} \cup Over
        /\ \A b \in Attempt \ {a} : pc'[b] = pc[b]
    BY <1>1, <1>7
       DEF Finish, Acquire, SupAcquire, LeaseThen, Goto, Move, Rest, history, Over
  <2>2. \A b \in Attempt : Waits(b)
    BY <1>1, <2>1 DEF Over
  <2>3. /\ minted' = minted /\ now' = now
        /\ \A b \in Attempt \ {a} : granted'[b] = granted[b]
    <3>1. pc[a] # "idle"
      BY <1>7 DEF Finish, Acquire, SupAcquire
    <3>2. (\E l, r : LeaseThen(a, l, r)) \/ UNCHANGED vars
      BY <1>7 DEF Finish, Acquire, SupAcquire
    <3> QED BY <3>1, <3>2, LeaseThenFacts DEF vars
  <2> HIDE DEF Waits
  <2>4. NoNewSuccessor /\ IsFiniteSet(minted')
    BY <1>1, <2>3, NothingCreated
  <2> QED BY <1>1, <2>1, <2>2, <2>3, <2>4 DEF Quiet, Waits
<1>8. ASSUME NEW a \in Attempt,
             FinishComplete(a) \/ CompleteRecord(a) \/ SupComplete(a) \/ Release(a)
      PROVE  Quiet
  <2>1. /\ overdue' = overdue /\ target' = target /\ pc[a] # "idle" /\ pc[a] # "supCreate"
        /\ pc'[a] \in {"returned", "failed"}
        /\ \A b \in Attempt \ {a} : pc'[b] = pc[b]
    BY <1>1, <1>8
       DEF FinishComplete, CompleteRecord, SupComplete, Release, TryComplete, Goto, Move, Rest, history
  <2>2. \A b \in Attempt : Waits(b)
    BY <1>1, <2>1 DEF Over
  <2>3. minted' = minted /\ now' = now
    BY <1>8, <2>1, TryCompleteFacts, ReleaseStep DEF FinishComplete, CompleteRecord, SupComplete
  <2>4. \A b \in Attempt \ {a} : granted'[b] = granted[b]
    BY <1>1, <1>8
       DEF FinishComplete, CompleteRecord, SupComplete, Release, TryComplete, Complete,
           ReleaseLease, vars
  <2> HIDE DEF Waits
  <2>5. NoNewSuccessor /\ IsFiniteSet(minted')
    BY <1>1, <2>3, NothingCreated
  <2> QED BY <1>1, <2>1, <2>2, <2>3, <2>4, <2>5 DEF Quiet, Waits
<1>9. ASSUME NEW a \in Attempt, Submit(a)
      PROVE  Quiet
  <2>1. overdue' = overdue /\ \A b \in Attempt : Waits(b)
    BY <1>1, <1>9 DEF Submit, AfterRead, Move, Rest, history, Over
  <2>2. UNCHANGED vars \/ \E id \in RecordId, ds \in Batches : SubmitDecisions(id, ds)
    BY <1>9 DEF Submit, ResumeIInv, ResumeTypeOK, Started
  <2> QED BY <1>3, <2>1, <2>2
<1>10. ASSUME NEW a \in Attempt, Loop(a)
      PROVE  Quiet
  <2>1. overdue' = overdue /\ \A b \in Attempt : Waits(b)
    BY <1>1, <1>10 DEF Loop, Goto, Move, Rest, history, Over
  <2> HIDE DEF Waits
  <2> QED BY <1>1, <1>3, <1>4, <1>10, <2>1 DEF Loop, Fresh
<1>11. ASSUME NEW a \in Attempt, SupLookup(a)
      PROVE  Quiet
  <2>1. /\ UNCHANGED vars /\ overdue' = overdue /\ target' = target /\ pc[a] = "supLookup"
        /\ pc'[a] = IF Successors(target[a]) # {} THEN "supComplete" ELSE "supCreate"
        /\ \A b \in Attempt \ {a} : pc'[b] = pc[b]
    BY <1>1, <1>11 DEF SupLookup, Goto, Move, Rest, history
  <2>2. minted' = minted /\ granted' = granted /\ now' = now
    BY <2>1 DEF vars
  <2>3. NoNewSuccessor
    BY <1>1, <2>2, NothingCreated
  <2> QED BY <1>1, <2>1, <2>2, <2>3 DEF Quiet, Over
<1>12. ASSUME NEW a \in Attempt,
             \/ Lookup(a) \/ Classify(a) \/ Compat(a) \/ Exec(a)
             \/ CallFails(a) \/ Crash(a)
      PROVE  Quiet
  <2>1. UNCHANGED vars /\ overdue' = overdue
    BY <1>12 DEF Lookup, Classify, Compat, Exec, CallFails, Crash, Rest, history
  <2>2. \A b \in Attempt : Waits(b)
    BY <1>1, <1>12
       DEF Lookup, Classify, Compat, Exec, CallFails, Crash, Goto, Move, Rest, Over
  <2> QED BY <1>3, <2>1, <2>2
<1> HIDE DEF Waits
<1> QED
  BY <1>5, <1>6, <1>7, <1>8, <1>9, <1>10, <1>11, <1>12 DEF ResumeNext, HostStep

\* The successors of a record are among the minted ids.
LEMMA SuccessorsFinite ==
  ASSUME ResumeIInv, NEW id
  PROVE  IsFiniteSet(Successors(id)) /\ Cardinality(Successors(id)) \in Nat
<1>1. Successors(id) \subseteq minted
  BY DEF Successors, ResumeIInv, IInv, FreshIds
<1> QED BY <1>1, FS_Subset, FS_CardinalityType DEF ResumeIInv, FiniteHistory

\* Quiet steps neither make successors nor let an attempt past the look-up.
LEMMA QuietKeeps ==
  ASSUME ResumeIInv, Grows, Quiet, ResumeTypeOK'
  PROVE  (OverdueDone /\ FiniteHistory /\ LookedUp /\ SuccessorUnique)'
<1>1. \A id \in RecordId : Successors(id)' = Successors(id)
  <2> SUFFICES ASSUME NEW id \in RecordId, NEW x \in Successors(id)' PROVE x \in Successors(id)
    BY SuccessorsGrow
  <2>1. x \in RecordId /\ store'[x] # Absent /\ store'[x].meta.supersedes = id
    BY DEF Successors, Exists
  <2>2. Exists(x)
    BY <2>1 DEF Quiet, NoNewSuccessor
  <2> QED BY <2>1, <2>2, RecordKept DEF Successors
<1>2. \A id \in RecordId : Overdue(id)' = Overdue(id)
  BY DEF Quiet, Overdue
<1>3. OverdueDone' /\ FiniteHistory'
  BY <1>2 DEF Quiet, OverdueDone, FiniteHistory, ResumeIInv
<1>4. SuccessorUnique'
  BY <1>1, <1>2 DEF SuccessorUnique, ResumeIInv
<1>5. LookedUp'
  <2> SUFFICES ASSUME NEW b \in Attempt, NEW id, id = target'[b],
                      pc'[b] = "supCreate", granted'[b][id] > now'
               PROVE  Cardinality(Successors(id)') <= Cardinality(Overdue(id)')
    BY DEF LookedUp, Successors, Overdue, Exists
  <2>1. /\ target[b] = id /\ id \in RecordId /\ now \in Nat /\ now' \in Nat /\ now <= now'
        /\ \/ pc[b] = "supCreate" /\ granted'[b] = granted[b]
           \/ Successors(id) = {}
    BY DEF Quiet
  <2>2. Cardinality(Overdue(id)) \in Nat
    BY <2>1, FS_CardinalityType DEF ResumeIInv, FiniteHistory
  <2>3. CASE Successors(id) = {}
    <3>1. Cardinality(Successors(id)) = 0
      BY <2>3, FS_EmptySet
    <3>2. Cardinality(Successors(id)) <= Cardinality(Overdue(id))
      BY <2>2, <3>1
    <3> QED BY <1>1, <1>2, <2>1, <3>2
  <2>4. CASE pc[b] = "supCreate" /\ granted'[b] = granted[b]
    <3>1. granted[b][id] \in Nat /\ granted[b][id] > now'
      BY <2>1, <2>4 DEF ResumeIInv, IInv, TypeOK, Attempt
    <3>2. granted[b][id] > now
      BY <2>1, <3>1
    <3>3. Cardinality(Successors(id)) <= Cardinality(Overdue(id))
      BY <2>1, <2>4, <3>2 DEF ResumeIInv, LookedUp
    <3> QED BY <1>1, <1>2, <2>1, <3>3
  <2> QED BY <2>1, <2>3, <2>4
<1> QED BY <1>3, <1>4, <1>5

\* SupCreate adds the one successor that its look-up under the lease allows,
\* or is overdue.
LEMMA SupCreateKeeps ==
  ASSUME ResumeIInv, NEW a \in Attempt, SupCreate(a)
  PROVE  (OverdueDone /\ FiniteHistory /\ LookedUp /\ SuccessorUnique)'
<1>0. PICK old \in RecordId : old = target[a]
  BY DEF SupCreate, ResumeIInv, Started
<1> DEFINE live == granted[a][old] > now
<1>1. PICK id \in RecordId : Create(id, MetaOf(old, newPolicy[a]), Flagged[newPolicy[a]])
  BY <1>0 DEF SupCreate, Fresh
<1>2. /\ pc[a] = "supCreate" /\ old \in RecordId /\ newPolicy[a] \in Fingerprint
      /\ target' = target /\ pc \in [Attempt -> Labels]
      /\ overdue' = IF live THEN overdue ELSE overdue \cup {<<a, old>>}
  BY <1>0 DEF SupCreate, ResumeIInv, ResumeTypeOK, Started
<1>3. /\ MetaOf(old, newPolicy[a]) \in Meta /\ MetaOf(old, newPolicy[a]).supersedes = old
      /\ Flagged[newPolicy[a]] \in SUBSET ToolCall
  BY <1>2, MetaFacts, ResumeAssumption
<1>4. /\ minted' = minted \cup {id} /\ ~Exists(id)
      /\ store'[id].meta.supersedes = old /\ store'[id] # Absent
      /\ \A x \in RecordId \ {id} : store'[x] = store[x]
      /\ now' = now /\ granted' = granted
  BY <1>1, <1>3, CreatedFacts
<1>5. pc'[a] = "supComplete" /\ \A b \in Attempt \ {a} : pc'[b] = pc[b]
  BY <1>2 DEF SupCreate, Goto, Move
<1>6. /\ Successors(old)' = Successors(old) \cup {id} /\ id \notin Successors(old)
      /\ \A x \in RecordId \ {old} : Successors(x)' = Successors(x)
  BY <1>2, <1>4 DEF Successors, Exists
<1>7. a \notin Overdue(old)
  BY <1>0, <1>2 DEF ResumeIInv, OverdueDone, Overdue, Over
<1>8. /\ Overdue(old)' = IF live THEN Overdue(old) ELSE Overdue(old) \cup {a}
      /\ \A x \in RecordId \ {old} : Overdue(x)' = Overdue(x)
  BY <1>2 DEF Overdue
<1> HIDE DEF live
<1>9. /\ IsFiniteSet(Overdue(old)) /\ Cardinality(Overdue(old)) \in Nat
      /\ Cardinality(Overdue(old) \cup {a}) = Cardinality(Overdue(old)) + 1
      /\ IsFiniteSet(Overdue(old) \cup {a})
  BY <1>2, <1>7, FS_AddElement, FS_CardinalityType DEF ResumeIInv, FiniteHistory
<1>10. /\ Cardinality(Successors(old)) \in Nat
       /\ Cardinality(Successors(old)') = Cardinality(Successors(old)) + 1
  BY <1>6, SuccessorsFinite, FS_AddElement
<1>11. OverdueDone'
  BY <1>2, <1>5 DEF OverdueDone, ResumeIInv, Over
<1>12. FiniteHistory'
  <2>1. IsFiniteSet(minted')
    BY <1>4, FS_AddElement DEF FiniteHistory, ResumeIInv
  <2>2. \A x \in RecordId : IsFiniteSet(Overdue(x)')
    BY <1>8, <1>9 DEF FiniteHistory, ResumeIInv
  <2> QED BY <2>1, <2>2 DEF FiniteHistory
<1>13. SuccessorUnique'
  <2>1. Cardinality(Successors(old)) <= 1 + Cardinality(Overdue(old))
    BY <1>2 DEF ResumeIInv, SuccessorUnique
  <2>2. live => Cardinality(Successors(old)) <= Cardinality(Overdue(old))
    BY <1>0, <1>2 DEF ResumeIInv, LookedUp, live
  <2>3. Cardinality(Successors(old)') <= 1 + Cardinality(Overdue(old)')
    <3>1. CASE live
      BY <1>8, <1>9, <1>10, <2>2, <3>1
    <3>2. CASE ~live
      BY <1>8, <1>9, <1>10, <2>1, <3>2
    <3> QED BY <3>1, <3>2
  <2>4. \A x \in RecordId : Cardinality(Successors(x)') <= 1 + Cardinality(Overdue(x)')
    <3> SUFFICES ASSUME NEW x \in RecordId \ {old}
                 PROVE  Cardinality(Successors(x)') <= 1 + Cardinality(Overdue(x)')
      BY <2>3
    <3>1. Cardinality(Successors(x)) <= 1 + Cardinality(Overdue(x))
      BY DEF ResumeIInv, SuccessorUnique
    <3> QED BY <1>6, <1>8, <3>1
  <2> QED BY <2>4 DEF SuccessorUnique
<1>14. LookedUp'
  <2> SUFFICES ASSUME NEW b \in Attempt, NEW x, x = target[b],
                      pc'[b] = "supCreate", granted[b][x] > now
               PROVE  Cardinality(Successors(x)') <= Cardinality(Overdue(x)')
    BY <1>2, <1>4 DEF LookedUp, Successors, Overdue, Exists
  <2>1. b # a /\ pc[b] = "supCreate" /\ x \in RecordId
    BY <1>5 DEF ResumeIInv, Started
  <2>2. Cardinality(Successors(x)) <= Cardinality(Overdue(x))
    BY <2>1 DEF ResumeIInv, LookedUp
  <2>3. CASE x # old
    BY <1>2, <1>6, <1>8, <2>1, <2>2, <2>3
  <2>4. CASE x = old
    <3>1. ~live
      BY <1>0, <1>2, <2>1, <2>4 DEF live, ResumeIInv, IInv, OneLiveHolder, Attempt
    <3>2. Cardinality(Successors(old)') <= Cardinality(Overdue(old)')
      BY <1>8, <1>9, <1>10, <2>2, <2>4, <3>1
    <3> QED BY <1>2, <1>6, <1>8, <2>4, <3>2
  <2> QED BY <2>3, <2>4
<1> QED BY <1>11, <1>12, <1>13, <1>14

-----------------------------------------------------------------------------
\* The theorems.

\* The invariant holds before anybody suspends or resumes.
LEMMA InitResumeIInv == ResumeInit => ResumeIInv
<1> SUFFICES ASSUME ResumeInit PROVE ResumeIInv
  OBVIOUS
<1>1. IInv /\ now # 0
  BY InitIInv DEF ResumeInit, Init
<1>2. \A id \in RecordId : ~Exists(id)
  BY DEF ResumeInit, Init, Exists
<1>3. <<>> \in Batches
  <2>1. 0 \in 0..MaxBatch /\ <<>> \in [1..0 -> Decision]
    BY StoreAssumption
  <2> QED BY <2>1 DEF Batches
<1>4. ResumeTypeOK
  BY <1>1, <1>3 DEF ResumeInit, ResumeTypeOK, IInv, Labels
<1>5. \A a \in Attempt : Started(a) /\ SnapDecided(a) /\ Approved(a) /\ Obeying(a) /\ LeaseKept(a)
  BY <1>2 DEF ResumeInit, Started, SnapDecided, Approved, Obeying, LeaseKept, Over
<1>6. IsFiniteSet({}) /\ Cardinality({}) = 0
  BY FS_EmptySet
<1>7. \A id \in RecordId : Overdue(id) = {} /\ Successors(id) = {}
  BY <1>2 DEF ResumeInit, Overdue, Successors
<1>8. OverdueDone /\ FiniteHistory /\ LookedUp
  BY <1>6, <1>7 DEF ResumeInit, Init, OverdueDone, FiniteHistory, LookedUp
<1>9. SuccessorUnique
  BY <1>6, <1>7 DEF SuccessorUnique
<1> QED BY <1>1, <1>4, <1>5, <1>8, <1>9 DEF ResumeIInv

\* Every step keeps the inductive invariant.
LEMMA NextResumeIInv == ResumeIInv /\ [ResumeNext]_resumeVars => ResumeIInv'
<1> SUFFICES ASSUME ResumeIInv, [ResumeNext]_resumeVars PROVE ResumeIInv'
  OBVIOUS
<1>1. Grows /\ IInv'
  BY StepGrows, NextIInv DEF Grows, ResumeIInv
<1>2. now' # 0
  <2>1. now \in Nat /\ now # 0
    BY DEF ResumeIInv, IInv, TypeOK
  <2>2. now' = now \/ now' = now + 1
    BY <1>1 DEF Grows, Next, vars, Tick, Create, SubmitDecisions, AcquireLease, ReleaseLease,
       Complete, Delete
  <2> QED BY <2>1, <2>2
<1>3. ResumeTypeOK' /\ \A b \in Attempt : AttemptOK(b)'
  BY StepAttempts
<1>4. \A b \in Attempt : LeaseKept(b)'
  BY StepLeaseKept
<1>5. (OverdueDone /\ FiniteHistory /\ LookedUp /\ SuccessorUnique)'
  BY <1>1, <1>3, QuietStep, QuietKeeps, SupCreateKeeps
<1> QED BY <1>1, <1>2, <1>3, <1>4, <1>5 DEF ResumeIInv, AttemptOK

\* The inductive invariant holds however resumes race, expire, fail
\* or crash.
THEOREM ResumeIInvHolds == ResumeSpec => []ResumeIInv
BY InitResumeIInv, NextResumeIInv, PTL DEF ResumeSpec

\* ApprovedCallsOnly: no resume runs the handler of a pending call that the
\* host did not approve, or before every pending call was decided.
THEOREM ApprovedOnly == ResumeSpec => []ApprovedCallsOnly
<1>1. ResumeIInv => ApprovedCallsOnly
  BY DEF ResumeIInv, Approved, ApprovedCallsOnly
<1> QED BY <1>1, ResumeIInvHolds, PTL

\* SuccessorSound: after a record was superseded no attempt that begins runs
\* its batch, and a second successor takes an attempt that overran its lease.
THEOREM SuccessorsSound == ResumeSpec => []SuccessorSound
<1>1. ResumeIInv => SuccessorSound
  BY DEF ResumeIInv, ResumeTypeOK, Obeying, SuccessorSound, SuccessorObeyed
<1> QED BY <1>1, ResumeIInvHolds, PTL

\* ReturnedHoldsNoLease: an attempt that returned leaves a lease behind only if
\* the call that was to end it failed.
THEOREM ReturnedWithoutLease == ResumeSpec => []ReturnedHoldsNoLease
<1>1. ResumeIInv => ReturnedHoldsNoLease
  BY DEF ResumeIInv, LeaseKept, ReturnedHoldsNoLease, Leased
<1> QED BY <1>1, ResumeIInvHolds, PTL

\* Whatever attempts do, the store they share keeps its own promises: one live
\* lease per record, verdicts before ready, each decision credited once.
THEOREM ResumeKeepsStore == ResumeSpec => [](OneLiveHolder /\ GrantHonoured /\ DecidedBeforeReady /\ CreditedOnce)
<1>1. ResumeIInv => OneLiveHolder /\ GrantHonoured /\ DecidedBeforeReady /\ CreditedOnce
  BY DEF ResumeIInv, IInv
<1> QED BY <1>1, ResumeIInvHolds, PTL

-----------------------------------------------------------------------------
\* The file tools

\* Words, texts and what a call keeps.

AnyWord == Word \cup EditCall \cup {"missing"}
AnyText == Seq(AnyWord)
ToolCallRecord ==
  [op : {"none", "read", "edit", "write", "create"}, path : SUBSET Path,
   at : {"new", "check", "lock", "stat", "rename", "done"}, all : BOOLEAN, old : Word, text : AnyText]

ToolsTypeOK ==
  /\ file \in [Path -> AnyText]
  /\ pathLock \in [Path -> SUBSET EditCall]
  /\ tcall \in [EditCall -> ToolCallRecord]
  /\ tracked \subseteq everRead

\* A call that was made has one path.
OnePath == \A c \in EditCall : tcall[c].op # "none" => \E p \in Path : tcall[c].path = {p}

\* What the n-th step of an edit may rely on: its path was read, it is the
\* holder of the path's lock, and, unless a write overtook it, what it will put
\* in place is the edit of what is there.
EditReady(c, p) ==
  /\ tcall[c].at \in {"lock", "stat", "rename"} => p \in everRead
  /\ tcall[c].at \in {"stat", "rename"} => pathLock[p] = {c}
  /\ tcall[c].at = "rename" /\ c \notin overtaken =>
       /\ tcall[c].text = Replaced(file[p], tcall[c].old, c, tcall[c].all)
       /\ file[p] # Missing
       /\ tcall[c].all \/ Cardinality(MatchesOf(file[p], tcall[c].old)) = 1

EditsReady ==
  \A c \in EditCall, p \in Path : tcall[c].op = "edit" /\ tcall[c].path = {p} => EditReady(c, p)

ToolsIInv == ToolsTypeOK /\ OnePath /\ EditsReady

LEMMA PathIs ==
  ASSUME NEW c \in EditCall, NEW p \in Path, tcall[c].path = {p}
  PROVE  PathOf(c) = p
<1>1. \A q \in Path : tcall[c].path = {q} => q = p
  OBVIOUS
<1> QED
  BY <1>1 DEF PathOf

LEMMA ReplacedIsText ==
  ASSUME NEW t \in AnyText, NEW w, NEW c \in EditCall, NEW all
  PROVE  Replaced(t, w, c, all) \in AnyText
<1>1. Len(t) \in Nat
  BY DEF AnyText
<1>2. \A i \in 1..Len(t) : t[i] \in AnyWord
  BY DEF AnyText
<1>3. c \in AnyWord
  BY DEF AnyWord
<1>4. Replaced(t, w, c, all) \in [1..Len(t) -> AnyWord]
  BY <1>2, <1>3 DEF Replaced
<1> QED
  BY <1>1, <1>4 DEF AnyText

LEMMA MatchesCounted ==
  ASSUME NEW t \in AnyText, NEW w
  PROVE  Cardinality(MatchesOf(t, w)) \in Nat
<1>1. Len(t) \in Nat /\ MatchesOf(t, w) \subseteq 1..Len(t)
  BY DEF AnyText, MatchesOf
<1>2. IsFiniteSet(1..Len(t))
  BY <1>1, FS_Interval
<1> QED
  BY <1>1, <1>2, FS_Subset, FS_CardinalityType

LEMMA ToolsInitial == ToolsInit => ToolsIInv
<1> SUFFICES ASSUME ToolsInit
             PROVE  ToolsIInv
  OBVIOUS
<1>1. \A t \in Texts : t \in AnyText
  <2>1. "x" \in AnyWord /\ "y" \in AnyWord /\ "missing" \in AnyWord
    BY DEF AnyWord, Word
  <2>2. PICK x \in AnyWord, y \in AnyWord, missing \in AnyWord : x = "x" /\ y = "y" /\ missing = "missing"
    BY <2>1
  <2>3. Texts = {<<missing>>, <<x>>, <<x, x>>, <<x, y>>}
    BY <2>2 DEF Texts, Missing
  <2>4. <<missing>> \in AnyText /\ <<x>> \in AnyText /\ <<x, x>> \in AnyText /\ <<x, y>> \in AnyText
    BY DEF AnyText
  <2> QED
    BY <2>3, <2>4
<1>2. NotCalled \in ToolCallRecord /\ NotCalled.op = "none"
  <2>1. <<>> \in AnyText
    BY DEF AnyText
  <2> QED
    BY <2>1 DEF NotCalled, ToolCallRecord, Word
<1>3. ToolsTypeOK
  BY <1>1, <1>2 DEF ToolsInit, ToolsTypeOK
<1> QED
  BY <1>2, <1>3 DEF ToolsInit, ToolsIInv, OnePath, EditsReady

\* Moving a call on changes nothing else of it.
LEMMA MovedOn ==
  ASSUME ToolsTypeOK, NEW c \in EditCall,
         NEW at \in {"new", "check", "lock", "stat", "rename", "done"}, ToolAt(c, at)
  PROVE  /\ tcall' \in [EditCall -> ToolCallRecord]
         /\ tcall'[c].at = at
         /\ tcall'[c].op = tcall[c].op /\ tcall'[c].path = tcall[c].path
         /\ tcall'[c].all = tcall[c].all /\ tcall'[c].old = tcall[c].old /\ tcall'[c].text = tcall[c].text
         /\ \A d \in EditCall : d # c => tcall'[d] = tcall[d]
<1>1. tcall' = [tcall EXCEPT ![c].at = at]
  BY DEF ToolAt
<1>2. tcall[c] \in ToolCallRecord
  BY DEF ToolsTypeOK
<1>3. tcall'[c] = [tcall[c] EXCEPT !.at = at]
  BY <1>1 DEF ToolsTypeOK
<1>4. /\ tcall'[c] \in ToolCallRecord /\ tcall'[c].at = at
      /\ tcall'[c].op = tcall[c].op /\ tcall'[c].path = tcall[c].path
      /\ tcall'[c].all = tcall[c].all /\ tcall'[c].old = tcall[c].old /\ tcall'[c].text = tcall[c].text
  BY <1>2, <1>3 DEF ToolCallRecord
<1> QED
  BY <1>1, <1>4 DEF ToolsTypeOK

LEMMA CallKeepsTools ==
  ASSUME ToolsIInv, NEW c \in EditCall, CallTool(c)
  PROVE  ToolsIInv'
<1>1. PICK op \in {"read", "edit", "write", "create"}, p \in Path, all \in BOOLEAN, old \in Word :
        /\ op # "edit" => ~all /\ old = "x"
        /\ tcall' = [tcall EXCEPT ![c] = [NotCalled EXCEPT !.op = op, !.path = {p}, !.at = "check",
                                           !.all = all, !.old = old]]
  BY DEF CallTool
<1>2. UNCHANGED <<file, pathLock, tracked, everRead, overtaken>>
  BY DEF CallTool
<1>3. PICK r : r = [NotCalled EXCEPT !.op = op, !.path = {p}, !.at = "check", !.all = all, !.old = old]
  OBVIOUS
<1>4. r \in ToolCallRecord /\ r.op = op /\ r.path = {p} /\ r.at = "check"
  <2>1. <<>> \in AnyText
    BY DEF AnyText
  <2>2. r = [op |-> op, path |-> {p}, at |-> "check", all |-> all, old |-> old, text |-> <<>>]
    BY <1>3 DEF NotCalled
  <2> QED
    BY <2>1, <2>2 DEF ToolCallRecord
<1>5. tcall' = [tcall EXCEPT ![c] = r]
  BY <1>1, <1>3
<1>6. tcall'[c] = r /\ \A d \in EditCall : d # c => tcall'[d] = tcall[d]
  BY <1>5 DEF ToolsIInv, ToolsTypeOK
<1>7. ToolsTypeOK'
  BY <1>2, <1>4, <1>5 DEF ToolsIInv, ToolsTypeOK
<1>8. OnePath'
  BY <1>4, <1>6 DEF ToolsIInv, OnePath
<1>9. EditsReady'
  <2> SUFFICES ASSUME NEW d \in EditCall, NEW q \in Path, (tcall[d].op = "edit" /\ tcall[d].path = {q})'
               PROVE  EditReady(d, q)'
    BY DEF EditsReady
  <2>1. CASE d = c
    BY <1>4, <1>6, <2>1 DEF EditReady
  <2>2. CASE d # c
    BY <1>2, <1>6, <2>2 DEF EditReady, EditsReady, ToolsIInv
  <2> QED
    BY <2>1, <2>2
<1> QED
  BY <1>7, <1>8, <1>9 DEF ToolsIInv

\* The frame of a step that moves one call on: what remains is what the call
\* itself may rely on, and what the others may.
LEMMA MoveKeepsTools ==
  ASSUME ToolsIInv, ToolsTypeOK', NEW c \in EditCall,
         tcall'[c].op = tcall[c].op, tcall'[c].path = tcall[c].path,
         \A d \in EditCall : d # c => tcall'[d] = tcall[d],
         \A p \in Path : tcall[c].op = "edit" /\ tcall[c].path = {p} => EditReady(c, p)',
         \A d \in EditCall, p \in Path :
           d # c /\ tcall[d].op = "edit" /\ tcall[d].path = {p} /\ EditReady(d, p) => EditReady(d, p)'
  PROVE  ToolsIInv'
<1>1. OnePath'
  BY DEF ToolsIInv, OnePath
<1>2. EditsReady'
  <2> SUFFICES ASSUME NEW d \in EditCall, NEW q \in Path, (tcall[d].op = "edit" /\ tcall[d].path = {q})'
               PROVE  EditReady(d, q)'
    BY DEF EditsReady
  <2>1. tcall[d].op = "edit" /\ tcall[d].path = {q}
    OBVIOUS
  <2>2. EditReady(d, q)
    BY <2>1 DEF ToolsIInv, EditsReady
  <2> QED
    BY <2>1, <2>2
<1> QED
  BY <1>1, <1>2 DEF ToolsIInv

LEMMA ReadKeepsTools ==
  ASSUME ToolsIInv, NEW c \in EditCall, ReadFile(c)
  PROVE  ToolsIInv'
<1>1. ToolAt(c, "done") /\ UNCHANGED <<file, pathLock, overtaken>> /\ tcall[c].op = "read"
  BY DEF ReadFile, At
<1>2. everRead \subseteq everRead' /\ tracked' \subseteq everRead'
  <2>1. CASE UNCHANGED <<tracked, everRead>>
    BY <2>1 DEF ToolsIInv, ToolsTypeOK
  <2>2. CASE tracked' = RecordRead(PathOf(c)) /\ everRead' = everRead \cup {PathOf(c)}
    BY <2>2 DEF ToolsIInv, ToolsTypeOK, RecordRead
  <2> QED
    BY <2>1, <2>2 DEF ReadFile
<1>3. /\ tcall' \in [EditCall -> ToolCallRecord]
      /\ tcall'[c].op = tcall[c].op /\ tcall'[c].path = tcall[c].path
      /\ \A d \in EditCall : d # c => tcall'[d] = tcall[d]
  BY <1>1, MovedOn DEF ToolsIInv
<1>4. ToolsTypeOK'
  BY <1>1, <1>2, <1>3 DEF ToolsIInv, ToolsTypeOK
<1>5. ASSUME NEW d \in EditCall, NEW p \in Path, d # c, EditReady(d, p)
      PROVE  EditReady(d, p)'
  BY <1>1, <1>2, <1>3, <1>5 DEF EditReady
<1> QED
  BY <1>1, <1>3, <1>4, <1>5, MoveKeepsTools

LEMMA EditStartKeepsTools ==
  ASSUME ToolsIInv, NEW c \in EditCall, EditCheck(c) \/ LockPath(c)
  PROVE  ToolsIInv'
<1>1. UNCHANGED <<file, tracked, everRead, overtaken>> /\ tcall[c].op = "edit"
  BY DEF EditCheck, LockPath, At
<1>2. PICK p \in Path : tcall[c].path = {p} /\ PathOf(c) = p
  BY <1>1, PathIs DEF ToolsIInv, OnePath
<1>3. EditReady(c, p)
  BY <1>1, <1>2 DEF ToolsIInv, EditsReady
<1>4. CASE EditCheck(c)
  <2>1. PICK at \in {"lock", "done"} : ToolAt(c, at) /\ (at = "lock" => p \in tracked)
    BY <1>2, <1>4 DEF EditCheck
  <2>2. /\ tcall' \in [EditCall -> ToolCallRecord] /\ tcall'[c].at = at
        /\ tcall'[c].op = tcall[c].op /\ tcall'[c].path = tcall[c].path
        /\ \A d \in EditCall : d # c => tcall'[d] = tcall[d]
    BY <2>1, MovedOn DEF ToolsIInv
  <2>3. pathLock' = pathLock
    BY <1>4 DEF EditCheck
  <2>4. ToolsTypeOK'
    BY <1>1, <2>2, <2>3 DEF ToolsIInv, ToolsTypeOK
  <2>5. EditReady(c, p)'
    BY <1>1, <2>1, <2>2 DEF EditReady, ToolsIInv, ToolsTypeOK
  <2>6. ASSUME NEW d \in EditCall, NEW q \in Path, d # c, EditReady(d, q)
        PROVE  EditReady(d, q)'
    BY <1>1, <2>2, <2>3, <2>6 DEF EditReady
  <2>7. \A q \in Path : tcall[c].path = {q} => q = p
    BY <1>2
  <2> QED
    BY <2>2, <2>4, <2>5, <2>6, <2>7, MoveKeepsTools
<1>5. CASE LockPath(c)
  <2>1. /\ ToolAt(c, "stat") /\ pathLock[p] = {} /\ tcall[c].at = "lock"
        /\ pathLock' = [pathLock EXCEPT ![p] = {c}]
    BY <1>2, <1>5 DEF LockPath, At
  <2>2. /\ tcall' \in [EditCall -> ToolCallRecord] /\ tcall'[c].at = "stat"
        /\ tcall'[c].op = tcall[c].op /\ tcall'[c].path = tcall[c].path
        /\ \A d \in EditCall : d # c => tcall'[d] = tcall[d]
    BY <2>1, MovedOn DEF ToolsIInv
  <2>3. pathLock'[p] = {c} /\ \A q \in Path : q # p => pathLock'[q] = pathLock[q]
    BY <2>1 DEF ToolsIInv, ToolsTypeOK
  <2>4. ToolsTypeOK'
    BY <1>1, <2>1, <2>2 DEF ToolsIInv, ToolsTypeOK
  <2>5. EditReady(c, p)'
    BY <1>1, <1>3, <2>1, <2>2, <2>3 DEF EditReady
  <2>6. ASSUME NEW d \in EditCall, NEW q \in Path, d # c, EditReady(d, q)
        PROVE  EditReady(d, q)'
    BY <1>1, <2>1, <2>2, <2>3, <2>6 DEF EditReady
  <2>7. \A q \in Path : tcall[c].path = {q} => q = p
    BY <1>2
  <2> QED
    BY <2>2, <2>4, <2>5, <2>6, <2>7, MoveKeepsTools
<1> QED
  BY <1>4, <1>5

\* Giving up a lock leaves the locks of the others.
LEMMA UnlockOwn ==
  ASSUME ToolsTypeOK, NEW c \in EditCall, Unlock(c)
  PROVE  /\ pathLock' \in [Path -> SUBSET EditCall]
         /\ \A d \in EditCall, p \in Path : d # c /\ pathLock[p] = {d} => pathLock'[p] = {d}
  BY DEF ToolsTypeOK, Unlock

LEMMA EditReadKeepsTools ==
  ASSUME ToolsIInv, NEW c \in EditCall, EditRead(c)
  PROVE  ToolsIInv'
<1>1. /\ UNCHANGED <<file, tracked, everRead>> /\ tcall[c].op = "edit" /\ tcall[c].at = "stat"
      /\ overtaken' = overtaken \ {c}
  BY DEF EditRead, At
<1>2. PICK p \in Path : tcall[c].path = {p} /\ PathOf(c) = p
  BY <1>1, PathIs DEF ToolsIInv, OnePath
<1>3. EditReady(c, p)
  BY <1>1, <1>2 DEF ToolsIInv, EditsReady
<1>q. \A q \in Path : tcall[c].path = {q} => q = p
  BY <1>2
<1> DEFINE text == file[p]
<1> DEFINE n == Cardinality(MatchesOf(text, tcall[c].old))
<1>4. CASE /\ text # Missing /\ n > 0 /\ (n > 1 => tcall[c].all)
           /\ tcall' = [tcall EXCEPT ![c].at = "rename",
                          ![c].text = Replaced(text, tcall[c].old, c, tcall[c].all)]
           /\ UNCHANGED pathLock
  <2>1. PICK new : new = Replaced(text, tcall[c].old, c, tcall[c].all)
    OBVIOUS
  <2>2. new \in AnyText /\ n \in Nat
    BY <2>1, ReplacedIsText, MatchesCounted DEF ToolsIInv, ToolsTypeOK
  <2>3. tcall'[c] = [tcall[c] EXCEPT !.at = "rename", !.text = new]
        /\ \A d \in EditCall : d # c => tcall'[d] = tcall[d]
    BY <1>4, <2>1 DEF ToolsIInv, ToolsTypeOK
  <2>4. tcall[c] \in ToolCallRecord
    BY DEF ToolsIInv, ToolsTypeOK
  <2>5. /\ tcall'[c] \in ToolCallRecord /\ tcall'[c].at = "rename" /\ tcall'[c].text = new
        /\ tcall'[c].op = tcall[c].op /\ tcall'[c].path = tcall[c].path
        /\ tcall'[c].all = tcall[c].all /\ tcall'[c].old = tcall[c].old
    BY <2>2, <2>3, <2>4 DEF ToolCallRecord
  <2>6. tcall' \in [EditCall -> ToolCallRecord]
    BY <1>4, <2>5 DEF ToolsIInv, ToolsTypeOK
  <2>7. ToolsTypeOK'
    BY <1>1, <1>4, <2>6 DEF ToolsIInv, ToolsTypeOK
  <2>8. tcall[c].all \/ n = 1
    BY <1>4, <2>2
  <2> HIDE DEF n
  <2>9. EditReady(c, p)'
    BY <1>1, <1>3, <1>4, <2>1, <2>5, <2>8 DEF EditReady, n
  <2>10. ASSUME NEW d \in EditCall, NEW q \in Path, d # c, EditReady(d, q)
         PROVE  EditReady(d, q)'
    BY <1>1, <1>4, <2>3, <2>10 DEF EditReady
  <2> QED
    BY <1>q, <2>3, <2>5, <2>7, <2>9, <2>10, MoveKeepsTools
<1>5. CASE ToolAt(c, "done") /\ Unlock(c)
  <2>1. /\ tcall' \in [EditCall -> ToolCallRecord] /\ tcall'[c].at = "done"
        /\ tcall'[c].op = tcall[c].op /\ tcall'[c].path = tcall[c].path
        /\ \A d \in EditCall : d # c => tcall'[d] = tcall[d]
    BY <1>5, MovedOn DEF ToolsIInv
  <2>2. /\ pathLock' \in [Path -> SUBSET EditCall]
        /\ \A d \in EditCall, q \in Path : d # c /\ pathLock[q] = {d} => pathLock'[q] = {d}
    BY <1>5, UnlockOwn DEF ToolsIInv
  <2>3. ToolsTypeOK'
    BY <1>1, <2>1, <2>2 DEF ToolsIInv, ToolsTypeOK
  <2>4. EditReady(c, p)'
    BY <2>1 DEF EditReady
  <2>5. ASSUME NEW d \in EditCall, NEW q \in Path, d # c, EditReady(d, q)
        PROVE  EditReady(d, q)'
    BY <1>1, <2>1, <2>2, <2>5 DEF EditReady
  <2> QED
    BY <1>q, <2>1, <2>3, <2>4, <2>5, MoveKeepsTools
<1> QED
  BY <1>2, <1>4, <1>5 DEF EditRead

\* The rename of an edit: the others on the path do not hold its lock, so
\* nothing they rely on changes.
LEMMA EditRenameKeepsTools ==
  ASSUME ToolsIInv, NEW c \in EditCall, EditRename(c)
  PROVE  ToolsIInv'
<1>1. /\ ToolAt(c, "done") /\ Unlock(c) /\ RenameOver(c, tcall[c].text)
      /\ UNCHANGED <<tracked, everRead, overtaken>> /\ tcall[c].op = "edit" /\ tcall[c].at = "rename"
  BY DEF EditRename, At
<1>2. PICK p \in Path : tcall[c].path = {p} /\ PathOf(c) = p
  BY <1>1, PathIs DEF ToolsIInv, OnePath
<1>3. pathLock[p] = {c}
  BY <1>1, <1>2 DEF ToolsIInv, EditsReady, EditReady
<1>q. \A q \in Path : tcall[c].path = {q} => q = p
  BY <1>2
<1>4. /\ tcall' \in [EditCall -> ToolCallRecord] /\ tcall'[c].at = "done"
      /\ tcall'[c].op = tcall[c].op /\ tcall'[c].path = tcall[c].path
      /\ \A d \in EditCall : d # c => tcall'[d] = tcall[d]
  BY <1>1, MovedOn DEF ToolsIInv
<1>5. /\ pathLock' \in [Path -> SUBSET EditCall]
      /\ \A d \in EditCall, q \in Path : d # c /\ pathLock[q] = {d} => pathLock'[q] = {d}
  BY <1>1, UnlockOwn DEF ToolsIInv
<1>6. tcall[c].text \in AnyText
  BY DEF ToolsIInv, ToolsTypeOK, ToolCallRecord
<1>7. file' \in [Path -> AnyText] /\ \A q \in Path : q # p => file'[q] = file[q]
  BY <1>1, <1>2, <1>6 DEF RenameOver, ToolsIInv, ToolsTypeOK
<1>8. ToolsTypeOK'
  BY <1>1, <1>4, <1>5, <1>7 DEF ToolsIInv, ToolsTypeOK
<1>9. EditReady(c, p)'
  BY <1>4 DEF EditReady
<1>10. ASSUME NEW d \in EditCall, NEW q \in Path, d # c, EditReady(d, q)
       PROVE  EditReady(d, q)'
  <2>1. CASE q = p
    <3>1. tcall[d].at \notin {"stat", "rename"}
      BY <1>3, <1>10, <2>1 DEF EditReady
    <3> QED
      BY <1>1, <1>4, <1>10, <3>1 DEF EditReady
  <2>2. CASE q # p
    BY <1>1, <1>4, <1>5, <1>7, <1>10, <2>2 DEF EditReady
  <2> QED
    BY <2>1, <2>2
<1> QED
  BY <1>q, <1>4, <1>8, <1>9, <1>10, MoveKeepsTools

LEMMA WriteKeepsTools ==
  ASSUME ToolsIInv, NEW c \in EditCall, WriteCheck(c) \/ WriteRename(c)
  PROVE  ToolsIInv'
<1>1. tcall[c].op \in {"write", "create"} /\ UNCHANGED <<pathLock, tracked, everRead>>
  BY DEF WriteCheck, WriteRename
<1>2. PICK at \in {"rename", "done"} : ToolAt(c, at)
  BY DEF WriteCheck, WriteRename
<1>3. /\ tcall' \in [EditCall -> ToolCallRecord]
      /\ tcall'[c].op = tcall[c].op /\ tcall'[c].path = tcall[c].path
      /\ \A d \in EditCall : d # c => tcall'[d] = tcall[d]
  BY <1>2, MovedOn DEF ToolsIInv
<1>4. PICK p \in Path : tcall[c].path = {p} /\ PathOf(c) = p
  BY <1>1, PathIs DEF ToolsIInv, OnePath
<1>5. CASE WriteCheck(c)
  <2>1. ToolsTypeOK' /\ UNCHANGED <<file, overtaken>>
    BY <1>1, <1>3, <1>5 DEF ToolsIInv, ToolsTypeOK, WriteCheck
  <2>2. ASSUME NEW d \in EditCall, NEW q \in Path, d # c, EditReady(d, q)
        PROVE  EditReady(d, q)'
    BY <1>1, <1>3, <2>1, <2>2 DEF EditReady
  <2> QED
    BY <1>1, <1>3, <2>1, <2>2, MoveKeepsTools
<1>6. CASE WriteRename(c)
  <2>1. <<c>> \in AnyText
    BY DEF AnyText, AnyWord
  <2>2. file' \in [Path -> AnyText] /\ \A q \in Path : q # p => file'[q] = file[q]
    BY <1>4, <1>6, <2>1 DEF WriteRename, RenameOver, ToolsIInv, ToolsTypeOK
  <2>3. overtaken' = IF file' = file THEN overtaken
                     ELSE overtaken \cup {d \in EditCall : At(d, "edit", "rename")
                                                           /\ tcall[d].path = tcall[c].path}
    BY <1>6 DEF WriteRename
  <2>4. ToolsTypeOK'
    BY <1>1, <1>3, <2>2 DEF ToolsIInv, ToolsTypeOK
  <2>5. ASSUME NEW d \in EditCall, NEW q \in Path, d # c,
               tcall[d].op = "edit", tcall[d].path = {q}, EditReady(d, q)
        PROVE  EditReady(d, q)'
    <3>1. overtaken \subseteq overtaken'
      BY <2>3
    <3>2. (file'[q] # file[q] /\ tcall[d].at = "rename") => d \in overtaken'
      <4> SUFFICES ASSUME file'[q] # file[q], tcall[d].at = "rename"
                   PROVE  d \in overtaken'
        OBVIOUS
      <4>1. q = p /\ file' # file
        BY <2>2
      <4> QED
        BY <1>4, <2>3, <2>5, <4>1 DEF At
    <3>3. tcall'[d] = tcall[d]
      BY <1>3, <2>5
    <3> QED
      BY <1>1, <2>5, <3>1, <3>2, <3>3 DEF EditReady
  <2> QED
    BY <1>1, <1>3, <2>4, <2>5, MoveKeepsTools
<1> QED
  BY <1>5, <1>6

LEMMA ToolsStepKeeps ==
  ASSUME ToolsIInv, [ToolsStep]_toolVars
  PROVE  ToolsIInv'
<1>1. CASE UNCHANGED toolVars
  BY <1>1 DEF toolVars, ToolsIInv, ToolsTypeOK, OnePath, EditsReady, EditReady
<1>2. CASE ToolsStep
  BY <1>2, CallKeepsTools, ReadKeepsTools, EditStartKeepsTools, EditReadKeepsTools,
     EditRenameKeepsTools, WriteKeepsTools DEF ToolsStep
<1> QED
  BY <1>1, <1>2

\* Only a call's own steps move it on.
LEMMA OwnSteps ==
  ASSUME ToolsIInv, NEW c \in EditCall, ToolsStep, At(c, "edit", "rename"), tcall'[c].at = "done"
  PROVE  EditRename(c)
<1>1. PICK d \in EditCall :
        \/ CallTool(d) \/ ReadFile(d) \/ EditCheck(d) \/ LockPath(d) \/ EditRead(d)
        \/ EditRename(d) \/ WriteCheck(d) \/ WriteRename(d)
  BY DEF ToolsStep
<1>2. CASE d # c
  <2>1. \A r : tcall' = [tcall EXCEPT ![d] = r] => tcall'[c] = tcall[c]
    BY <1>2 DEF ToolsIInv, ToolsTypeOK
  <2>2. \A at : ToolAt(d, at) => tcall'[c] = tcall[c]
    BY <2>1 DEF ToolAt
  <2>3. EditRead(d) => tcall'[c] = tcall[c]
    BY <2>1, <2>2 DEF EditRead
  <2>4. CallTool(d) => tcall'[c] = tcall[c]
    BY <2>1 DEF CallTool
  <2>5. tcall'[c] = tcall[c]
    BY <1>1, <2>2, <2>3, <2>4
       DEF ReadFile, EditCheck, LockPath, EditRename, WriteCheck, WriteRename
  <2> QED
    BY <2>5 DEF At
<1>3. CASE d = c
  <2>1. tcall[c] # NotCalled
    BY DEF At, NotCalled
  <2> QED
    BY <1>1, <1>3, <2>1
       DEF At, CallTool, ReadFile, EditCheck, LockPath, EditRead, WriteCheck, WriteRename
<1> QED
  BY <1>2, <1>3

\* For any number of calls, files and tracked paths, in every interleaving: an
\* edit replaces a file that was read, under the path's lock, by exactly its own
\* change to the text it finds there, unless a write tool call came between.
THEOREM EditsApplyExactly == ToolsSpec => EditsApply
<1>1. ToolsInit => ToolsIInv
  BY ToolsInitial
<1>2. ToolsIInv /\ [ToolsStep]_toolVars => ToolsIInv'
  BY ToolsStepKeeps
<1> DEFINE Applied == \A c \in EditCall :
       (At(c, "edit", "rename") /\ tcall'[c].at = "done" /\ file' # file) =>
         LET p == PathOf(c) IN
         /\ c \notin overtaken =>
              /\ file'[p] = Replaced(file[p], tcall[c].old, c, tcall[c].all)
              /\ file[p] # Missing
              /\ \/ tcall[c].all
                 \/ Cardinality(MatchesOf(file[p], tcall[c].old)) = 1
         /\ p \in everRead
         /\ pathLock[p] = {c}
         /\ \A q \in Path \ {p} : file'[q] = file[q]
<1>3. ToolsIInv /\ [ToolsStep]_toolVars => [Applied]_toolVars
  <2> SUFFICES ASSUME ToolsIInv, ToolsStep, NEW c \in EditCall,
                      At(c, "edit", "rename"), tcall'[c].at = "done", file' # file
               PROVE  LET p == PathOf(c) IN
                      /\ c \notin overtaken =>
                           /\ file'[p] = Replaced(file[p], tcall[c].old, c, tcall[c].all)
                           /\ file[p] # Missing
                           /\ \/ tcall[c].all
                              \/ Cardinality(MatchesOf(file[p], tcall[c].old)) = 1
                      /\ p \in everRead
                      /\ pathLock[p] = {c}
                      /\ \A q \in Path \ {p} : file'[q] = file[q]
    OBVIOUS
  <2>1. EditRename(c)
    BY OwnSteps
  <2>2. PICK p \in Path : tcall[c].path = {p} /\ PathOf(c) = p
    BY PathIs DEF ToolsIInv, OnePath, At
  <2>3. EditReady(c, p)
    BY <2>2 DEF ToolsIInv, EditsReady, At
  <2>4. file' = [file EXCEPT ![p] = tcall[c].text]
    BY <2>1, <2>2 DEF EditRename, RenameOver
  <2>5. file'[p] = tcall[c].text /\ \A q \in Path \ {p} : file'[q] = file[q]
    BY <2>4 DEF ToolsIInv, ToolsTypeOK
  <2> QED
    BY <2>2, <2>3, <2>5 DEF EditReady, At
<1> QED
  BY <1>1, <1>2, <1>3, PTL DEF ToolsSpec, EditsApply

-----------------------------------------------------------------------------
\* Todo lists and child sessions

\* What is kept of a list, a session and a call.

Item == [id : Nat, status : {"pending", "in_progress", "bogus"}]
ListSnapshot == [version : Nat, items : Seq(Item)]
Session == TopSession \cup ChildName \cup {NoSession}
SubCall ==
  [op : {"none", "todo", "agent", "ask"}, session : Session, at : {"new", "emit", "run", "done"},
   snap : ListSnapshot, child : ChildName \cup {NoSession}, result : {"none", "ok", "error"}]

SessionToolsTypeOK ==
  /\ todo \in [TopSession -> ListSnapshot]
  /\ idCounter \in Nat
  /\ emitted \subseteq [session : Session, version : Nat, items : Seq(Item)]
  /\ children \subseteq [id : ChildName, parent : TopSession \cup ChildName]
  /\ sub \in [Call -> SubCall]

\* A call between its update of a list and its event.
Pending(c, s) == sub[c].at = "emit" /\ sub[c].session = s

\* What is behind the list of a session: no event and no call holds a later
\* version or another list of this version, no version is held twice, and the
\* version of the list is held by one.
ListInOrder(s) ==
  /\ todo[s].version = 0 => todo[s] = NoList
  /\ \A e \in emitted : e.session = s =>
       e.version <= todo[s].version /\ (e.version = todo[s].version => e.items = todo[s].items)
  /\ \A c \in Call : Pending(c, s) =>
       /\ sub[c].snap.version <= todo[s].version
       /\ sub[c].snap.version = todo[s].version => sub[c].snap.items = todo[s].items
  /\ \A e, f \in emitted : e.session = s /\ f.session = s /\ e.version = f.version => e = f
  /\ \A e \in emitted, c \in Call : e.session = s /\ Pending(c, s) => e.version # sub[c].snap.version
  /\ \A c, d \in Call : Pending(c, s) /\ Pending(d, s) /\ c # d => sub[c].snap.version # sub[d].snap.version
  /\ todo[s].version > 0 =>
       \/ \E e \in emitted : e.session = s /\ e.version = todo[s].version
       \/ \E c \in Call : Pending(c, s) /\ sub[c].snap.version = todo[s].version

ListsInOrder == \A s \in TopSession \ cleared : ListInOrder(s)

SessionToolsIInv == SessionToolsTypeOK /\ ListsInOrder /\ ChildrenOwned

LEMMA SessionToolsInitial == SessionToolsInit => SessionToolsIInv
<1> SUFFICES ASSUME SessionToolsInit
             PROVE  SessionToolsIInv
  OBVIOUS
<1>1. NoList \in ListSnapshot /\ NoList.version = 0
  <2>1. <<>> \in Seq(Item)
    OBVIOUS
  <2> QED
    BY <2>1 DEF NoList, ListSnapshot
<1>2. PICK no \in ListSnapshot : no = NoList
  BY <1>1
<1>3. NotCalling \in SubCall /\ NotCalling.at = "new" /\ NotCalling.child = NoSession
  <2>1. NotCalling = [op |-> "none", session |-> NoSession, at |-> "new", snap |-> no,
                      child |-> NoSession, result |-> "none"]
    BY <1>2 DEF NotCalling
  <2>2. NoSession \in Session /\ NoSession \in ChildName \cup {NoSession}
    BY DEF Session
  <2> QED
    BY <2>1, <2>2 DEF SubCall
<1>4. PICK nc \in SubCall : nc = NotCalling /\ nc.at = "new" /\ nc.child = NoSession
  BY <1>3
<1>5. sub = [c \in Call |-> nc] /\ todo = [s \in TopSession |-> no]
      /\ emitted = {} /\ children = {} /\ idCounter = 0
  BY <1>2, <1>4 DEF SessionToolsInit
<1>6. SessionToolsTypeOK
  BY <1>5 DEF SessionToolsTypeOK
<1>7. ListsInOrder
  BY <1>1, <1>2, <1>4, <1>5 DEF ListsInOrder, ListInOrder, Pending
<1>8. ChildrenOwned
  BY <1>4, <1>5 DEF ChildrenOwned, ChildIds
<1> QED
  BY <1>6, <1>7, <1>8 DEF SessionToolsIInv

-----------------------------------------------------------------------------

LEMMA FreshCounted ==
  ASSUME NEW n \in Nat, NEW x, x \subseteq 1..n
  PROVE  Cardinality(x) \in Nat
<1>1. IsFiniteSet(1..n)
  BY FS_Interval
<1> QED
  BY <1>1, FS_Subset, FS_CardinalityType

\* Merging yields items.
LEMMA MergedTyped ==
  ASSUME SessionToolsTypeOK, NEW n \in Nat, NEW prev,
         NEW items \in [1..n -> [id : 0..idCounter, status : {"pending", "in_progress", "bogus"}]]
  PROVE  MergedItems(prev, items) \in Seq(Item)
<1>1. Len(items) = n
  <2>1. PICK Given : items \in [1..n -> Given]
    OBVIOUS
  <2>2. items \in Seq(Given)
    BY <2>1
  <2>3. Len(items) \in Nat /\ 1..Len(items) = 1..n
    BY <2>1, <2>2
  <2>4. (n > 0 => n \in 1..Len(items)) /\ (Len(items) > 0 => Len(items) \in 1..n)
    BY <2>3
  <2> QED
    BY <2>3, <2>4
<1> DEFINE fresh == {i \in 1..Len(items) : items[i].id \notin IdsOf(prev)}
<1> DEFINE new(i) == idCounter + Cardinality({j \in fresh : j <= i})
<1>2. \A i \in 1..n : new(i) \in Nat
  <2> SUFFICES ASSUME NEW i \in 1..n
               PROVE  new(i) \in Nat
    OBVIOUS
  <2>1. Cardinality({j \in fresh : j <= i}) \in Nat
    BY <1>1, FreshCounted
  <2> QED
    BY <2>1 DEF SessionToolsTypeOK
<1> HIDE DEF new
<1>3. MergedItems(prev, items) = [i \in 1..n |->
        [id |-> IF i \in fresh THEN new(i) ELSE items[i].id, status |-> items[i].status]]
  BY <1>1 DEF MergedItems, new
<1> HIDE DEF fresh
<1>4. \A i \in 1..n : items[i].id \in Nat /\ items[i].status \in {"pending", "in_progress", "bogus"}
  BY DEF SessionToolsTypeOK
<1>5. \A i \in 1..n :
        [id |-> IF i \in fresh THEN new(i) ELSE items[i].id, status |-> items[i].status] \in Item
  BY <1>2, <1>4 DEF Item
<1>6. MergedItems(prev, items) \in [1..n -> Item]
  BY <1>3, <1>5
<1> QED
  BY <1>6

\* A step that leaves a list, the events and whoever is pending alone.
LEMMA ListUntouched ==
  ASSUME NEW s \in TopSession, ListInOrder(s), todo'[s] = todo[s], emitted' = emitted,
         \A c \in Call :
           /\ Pending(c, s)' <=> Pending(c, s)
           /\ Pending(c, s) => sub'[c].snap = sub[c].snap
  PROVE  ListInOrder(s)'
<1>1. \A e \in emitted : e.session = s =>
        e.version <= todo'[s].version /\ (e.version = todo'[s].version => e.items = todo'[s].items)
  BY DEF ListInOrder
<1>2. \A c \in Call : Pending(c, s)' =>
        /\ sub'[c].snap.version <= todo'[s].version
        /\ sub'[c].snap.version = todo'[s].version => sub'[c].snap.items = todo'[s].items
  BY DEF ListInOrder
<1>3. \A e, f \in emitted : e.session = s /\ f.session = s /\ e.version = f.version => e = f
  BY DEF ListInOrder
<1>4. \A e \in emitted, c \in Call : e.session = s /\ Pending(c, s)' => e.version # sub'[c].snap.version
  BY DEF ListInOrder
<1>5. \A c, d \in Call : Pending(c, s)' /\ Pending(d, s)' /\ c # d =>
        sub'[c].snap.version # sub'[d].snap.version
  BY DEF ListInOrder
<1>6. todo'[s].version > 0 =>
        \/ \E e \in emitted : e.session = s /\ e.version = todo'[s].version
        \/ \E c \in Call : Pending(c, s)' /\ sub'[c].snap.version = todo'[s].version
  BY DEF ListInOrder
<1>7. todo'[s].version = 0 => todo'[s] = NoList
  BY DEF ListInOrder
<1> QED
  BY <1>1, <1>2, <1>3, <1>4, <1>5, <1>6, <1>7 DEF ListInOrder

LEMMA ListsUntouched ==
  ASSUME ListsInOrder, UNCHANGED <<todo, emitted, cleared>>,
         \A c \in Call, s \in TopSession :
           /\ Pending(c, s)' <=> Pending(c, s)
           /\ Pending(c, s) => sub'[c].snap = sub[c].snap
  PROVE  ListsInOrder'
  BY ListUntouched DEF ListsInOrder

\* A recorded child has its id among the stored ones.
LEMMA ChildStored ==
  ASSUME NEW id, NEW parent, [id |-> id, parent |-> parent] \in children
  PROVE  id \in ChildIds
<1>1. PICK k \in children : k = [id |-> id, parent |-> parent]
  OBVIOUS
<1>2. k.id = id
  BY <1>1
<1> QED
  BY <1>2 DEF ChildIds

\* So with the children.
LEMMA ChildrenUntouched ==
  ASSUME ChildrenOwned, children' = children,
         \A c \in Call : sub'[c].child # NoSession =>
           sub'[c].child = sub[c].child /\ sub'[c].session = sub[c].session
  PROVE  ChildrenOwned'
<1>1. \A c, d \in Call : c # d /\ sub'[c].child # NoSession => sub'[c].child # sub'[d].child
  BY DEF ChildrenOwned
<1>2. \A c \in Call : sub'[c].child # NoSession =>
        [id |-> sub'[c].child, parent |-> sub'[c].session] \in children
  BY DEF ChildrenOwned
<1> QED
  BY <1>1, <1>2 DEF ChildrenOwned, ChildIds

LEMMA ApplyKeepsTools ==
  ASSUME SessionToolsIInv, NEW c \in Call, ApplyTodo(c)
  PROVE  SessionToolsIInv'
<1> USE DEF SessionToolsIInv
<1>0. sub[c] = NotCalling /\ UNCHANGED <<emitted, cleared, children>>
  BY DEF ApplyTodo
<1>c. sub[c].at = "new" /\ sub[c].child = NoSession
  BY <1>0 DEF NotCalling
<1>1. PICK s \in TopSession, n \in 0..MaxItems :
      \E items \in [1..n -> [id : 0..idCounter, status : {"pending", "in_progress", "bogus"}]] :
       LET prev == todo[s]
           merged == MergedItems(prev, items)
           stored == [version |-> NextVersion(prev, items), items |-> merged] IN
       IF ValidItems(items)
         THEN /\ todo' = [todo EXCEPT ![s] = stored]
              /\ idCounter' = idCounter + Cardinality(
                   {i \in 1..n : items[i].id \notin IdsOf(prev)})
              /\ sub' = [sub EXCEPT ![c] = [NotCalling EXCEPT !.op = "todo", !.session = s,
                                                        !.at = "emit", !.snap = stored]]
         ELSE /\ sub' = [sub EXCEPT ![c] = [NotCalling EXCEPT !.op = "todo", !.session = s,
                                                        !.at = "done", !.result = "error"]]
              /\ UNCHANGED <<todo, idCounter>>
  BY DEF ApplyTodo
<1>2. PICK items \in [1..n -> [id : 0..idCounter, status : {"pending", "in_progress", "bogus"}]] :
       LET prev == todo[s]
           merged == MergedItems(prev, items)
           stored == [version |-> NextVersion(prev, items), items |-> merged] IN
       IF ValidItems(items)
         THEN /\ todo' = [todo EXCEPT ![s] = stored]
              /\ idCounter' = idCounter + Cardinality(
                   {i \in 1..n : items[i].id \notin IdsOf(prev)})
              /\ sub' = [sub EXCEPT ![c] = [NotCalling EXCEPT !.op = "todo", !.session = s,
                                                        !.at = "emit", !.snap = stored]]
         ELSE /\ sub' = [sub EXCEPT ![c] = [NotCalling EXCEPT !.op = "todo", !.session = s,
                                                        !.at = "done", !.result = "error"]]
              /\ UNCHANGED <<todo, idCounter>>
  BY <1>1
<1>n. n \in Nat
  OBVIOUS
<1>t. /\ todo \in [TopSession -> ListSnapshot] /\ sub \in [Call -> SubCall] /\ sub[c] \in SubCall
      /\ s \in Session
  BY DEF SessionToolsTypeOK, Session
<1> DEFINE merged == MergedItems(todo[s], items)
<1> DEFINE stored == [version |-> todo[s].version + 1, items |-> merged]
<1>3. CASE ValidItems(items)
  <2>1. /\ todo' = [todo EXCEPT ![s] = stored]
        /\ idCounter' = idCounter + Cardinality({i \in 1..n : items[i].id \notin IdsOf(todo[s])})
        /\ sub' = [sub EXCEPT ![c] = [sub[c] EXCEPT !.op = "todo", !.session = s,
                                                    !.at = "emit", !.snap = stored]]
    BY <1>0, <1>2, <1>3 DEF NextVersion
  <2>2. merged \in Seq(Item)
    BY <1>n, MergedTyped
  <2>3. todo[s].version \in Nat
    BY <1>t DEF ListSnapshot
  <2> HIDE DEF merged
  <2>4. stored \in ListSnapshot /\ stored.version = todo[s].version + 1
    BY <2>2, <2>3 DEF ListSnapshot
  <2> HIDE DEF stored
  <2>5. PICK r : r = [sub[c] EXCEPT !.op = "todo", !.session = s, !.at = "emit", !.snap = stored]
    OBVIOUS
  <2>6. r \in SubCall /\ r.session = s /\ r.at = "emit" /\ r.snap = stored /\ r.child = NoSession
    BY <1>c, <1>t, <2>4, <2>5 DEF SubCall
  <2>7. sub' = [sub EXCEPT ![c] = r]
    BY <2>1, <2>5
  <2>8. sub'[c] = r /\ \A d \in Call : d # c => sub'[d] = sub[d]
    BY <1>t, <2>7
  <2>9. todo'[s] = stored /\ \A t \in TopSession : t # s => todo'[t] = todo[t]
    BY <1>t, <2>1
  <2>10. idCounter' \in Nat
    BY <1>n, <2>1, FreshCounted DEF SessionToolsTypeOK
  <2>11. SessionToolsTypeOK'
    BY <1>0, <1>t, <2>1, <2>4, <2>6, <2>7, <2>10 DEF SessionToolsTypeOK
  <2>12. ListsInOrder'
    <3> SUFFICES ASSUME NEW t \in TopSession \ cleared
                 PROVE  ListInOrder(t)'
      BY <1>0 DEF ListsInOrder
    <3>1. ListInOrder(t)
      BY DEF ListsInOrder
    <3>2. CASE t # s
      <4>1. \A d \in Call : (Pending(d, t)' <=> Pending(d, t)) /\ (Pending(d, t) => sub'[d].snap = sub[d].snap)
        BY <1>c, <2>6, <2>8, <3>2 DEF Pending
      <4>2. todo'[t] = todo[t]
        BY <2>9, <3>2
      <4> QED
        BY <1>0, <3>1, <4>1, <4>2, ListUntouched
    <3>3. CASE t = s
      <4>1. /\ Pending(c, t)' /\ ~Pending(c, t) /\ sub'[c].snap = stored
            /\ \A d \in Call : d # c => (Pending(d, t)' <=> Pending(d, t)) /\ sub'[d].snap = sub[d].snap
        BY <1>c, <2>6, <2>8, <3>3 DEF Pending
      <4>2. /\ \A e \in emitted : e.session = t => e.version \in Nat /\ e.version < stored.version
            /\ \A d \in Call : Pending(d, t) => sub[d].snap.version \in Nat /\ sub[d].snap.version < stored.version
        <5>1. \A e \in emitted : e.version \in Nat
          BY DEF SessionToolsTypeOK
        <5>2. \A d \in Call : sub[d].snap.version \in Nat
          BY <1>t DEF SubCall, ListSnapshot
        <5> QED
          BY <2>3, <2>4, <3>1, <3>3, <5>1, <5>2 DEF ListInOrder
      <4>3. todo'[t] = stored /\ stored.version > 0 /\ stored.version \in Nat
        BY <2>3, <2>4, <2>9, <3>3
      <4>4. \A d, e \in Call : Pending(d, t)' /\ Pending(e, t)' /\ d # e
                                 => sub'[d].snap.version # sub'[e].snap.version
        BY SMTT(40), <3>1, <4>1, <4>2 DEF ListInOrder
      <4>5. \A e \in emitted, d \in Call : e.session = t /\ Pending(d, t)' => e.version # sub'[d].snap.version
        BY <3>1, <4>1, <4>2 DEF ListInOrder
      <4>6. \A d \in Call : Pending(d, t)' =>
              /\ sub'[d].snap.version <= stored.version
              /\ sub'[d].snap.version = stored.version => sub'[d].snap.items = stored.items
        BY <4>1, <4>2, <4>3
      <4>7. \A e \in emitted : e.session = t => e.version <= stored.version /\ e.version # stored.version
        BY <4>2, <4>3
      <4>8. \A e, f \in emitted : e.session = t /\ f.session = t /\ e.version = f.version => e = f
        BY <3>1 DEF ListInOrder
      <4> QED
        BY <1>0, <4>1, <4>3, <4>4, <4>5, <4>6, <4>7, <4>8 DEF ListInOrder
    <3> QED
      BY <3>2, <3>3
  <2>13. ChildrenOwned'
    BY <1>0, <2>6, <2>8, ChildrenUntouched
  <2> QED
    BY <2>11, <2>12, <2>13
<1>4. CASE ~ValidItems(items)
  <2>1. /\ sub' = [sub EXCEPT ![c] = [sub[c] EXCEPT !.op = "todo", !.session = s,
                                                    !.at = "done", !.result = "error"]]
        /\ UNCHANGED <<todo, idCounter>>
    BY <1>0, <1>2, <1>4
  <2>2. PICK r : r = [sub[c] EXCEPT !.op = "todo", !.session = s, !.at = "done", !.result = "error"]
    OBVIOUS
  <2>3. r \in SubCall /\ r.at = "done" /\ r.child = NoSession
    BY <1>c, <1>t, <2>2 DEF SubCall
  <2>4. sub'[c] = r /\ (\A d \in Call : d # c => sub'[d] = sub[d]) /\ sub' \in [Call -> SubCall]
    BY <1>t, <2>1, <2>2, <2>3
  <2>5. SessionToolsTypeOK'
    BY <1>0, <2>1, <2>4 DEF SessionToolsTypeOK
  <2>6. ListsInOrder'
    BY <1>0, <1>c, <2>1, <2>3, <2>4, ListsUntouched DEF Pending
  <2>7. ChildrenOwned'
    BY <1>0, <2>3, <2>4, ChildrenUntouched
  <2> QED
    BY <2>5, <2>6, <2>7
<1> QED
  BY <1>3, <1>4

LEMMA EmitKeepsTools ==
  ASSUME SessionToolsIInv, NEW c \in Call, EmitTodo(c)
  PROVE  SessionToolsIInv'
<1> USE DEF SessionToolsIInv
<1>1. sub[c].at = "emit" /\ UNCHANGED <<todo, idCounter, cleared, children>>
  BY DEF EmitTodo
<1>2. PICK new : new = [session |-> sub[c].session, version |-> sub[c].snap.version, items |-> sub[c].snap.items]
  OBVIOUS
<1>3. emitted' = emitted \cup {new}
  BY <1>2 DEF EmitTodo
<1>t. sub \in [Call -> SubCall] /\ sub[c] \in SubCall
  BY DEF SessionToolsTypeOK
<1>4. /\ new \in [session : Session, version : Nat, items : Seq(Item)]
      /\ new.session = sub[c].session /\ new.version = sub[c].snap.version /\ new.items = sub[c].snap.items
  BY <1>2, <1>t DEF SubCall, ListSnapshot
<1>5. sub' = [sub EXCEPT ![c] = [sub[c] EXCEPT !.at = "done", !.result = "ok"]]
  BY <1>t DEF EmitTodo
<1>6. PICK r : r = [sub[c] EXCEPT !.at = "done", !.result = "ok"]
  OBVIOUS
<1>7. r \in SubCall /\ r.at = "done" /\ r.child = sub[c].child /\ r.session = sub[c].session
  BY <1>6, <1>t DEF SubCall
<1>8. sub'[c] = r /\ (\A d \in Call : d # c => sub'[d] = sub[d]) /\ sub' \in [Call -> SubCall]
  BY <1>t, <1>5, <1>6, <1>7
<1>9. SessionToolsTypeOK'
  BY <1>1, <1>3, <1>4, <1>8 DEF SessionToolsTypeOK
<1>10. ListsInOrder'
  <2> SUFFICES ASSUME NEW t \in TopSession \ cleared
               PROVE  ListInOrder(t)'
    BY <1>1 DEF ListsInOrder
  <2>1. ListInOrder(t)
    BY DEF ListsInOrder
  <2>2. \A d \in Call : Pending(d, t)' <=> Pending(d, t) /\ d # c
    BY <1>7, <1>8 DEF Pending
  <2>3. \A d \in Call : Pending(d, t)' => sub'[d].snap = sub[d].snap
    BY <1>8, <2>2
  <2>4. new.session = t <=> Pending(c, t)
    BY <1>1, <1>4 DEF Pending
  <2>5. \A e \in emitted' : e.session = t =>
          e.version <= todo[t].version /\ (e.version = todo[t].version => e.items = todo[t].items)
    BY <1>3, <1>4, <2>1, <2>4 DEF ListInOrder
  <2>6. \A e, f \in emitted' : e.session = t /\ f.session = t /\ e.version = f.version => e = f
    BY <1>3, <1>4, <2>1, <2>4 DEF ListInOrder
  <2>7. \A e \in emitted', d \in Call : e.session = t /\ Pending(d, t)' => e.version # sub'[d].snap.version
    BY <1>3, <1>4, <2>1, <2>2, <2>3, <2>4 DEF ListInOrder
  <2>8. todo[t].version > 0 =>
          \/ \E e \in emitted' : e.session = t /\ e.version = todo[t].version
          \/ \E d \in Call : Pending(d, t)' /\ sub'[d].snap.version = todo[t].version
    <3> SUFFICES ASSUME todo[t].version > 0,
                        ~\E e \in emitted' : e.session = t /\ e.version = todo[t].version
                 PROVE  \E d \in Call : Pending(d, t)' /\ sub'[d].snap.version = todo[t].version
      OBVIOUS
    <3>1. PICK d \in Call : Pending(d, t) /\ sub[d].snap.version = todo[t].version
      BY <1>3, <2>1 DEF ListInOrder
    <3>2. d # c
      BY <1>3, <1>4, <2>4, <3>1
    <3> QED
      BY <2>2, <2>3, <3>1, <3>2
  <2> QED
    BY <1>1, <2>1, <2>2, <2>3, <2>5, <2>6, <2>7, <2>8 DEF ListInOrder
<1>11. ChildrenOwned'
  BY <1>1, <1>7, <1>8, ChildrenUntouched
<1> QED
  BY <1>9, <1>10, <1>11

LEMMA ClearKeepsTools ==
  ASSUME SessionToolsIInv, NEW s \in TopSession, ClearTodo(s)
  PROVE  SessionToolsIInv'
<1> USE DEF SessionToolsIInv
<1>1. /\ todo' = [todo EXCEPT ![s] = NoList] /\ cleared' = cleared \cup {s}
      /\ UNCHANGED <<idCounter, emitted, children, sub>>
  BY DEF ClearTodo
<1>2. NoList \in ListSnapshot
  <2>1. <<>> \in Seq(Item)
    OBVIOUS
  <2> QED
    BY <2>1 DEF NoList, ListSnapshot
<1>3. SessionToolsTypeOK'
  BY <1>1, <1>2 DEF SessionToolsTypeOK
<1>4. ListsInOrder'
  <2> SUFFICES ASSUME NEW t \in TopSession \ cleared, t # s
               PROVE  ListInOrder(t)'
    BY <1>1 DEF ListsInOrder
  <2>1. ListInOrder(t)
    BY DEF ListsInOrder
  <2>2. todo'[t] = todo[t] /\ \A c \in Call : Pending(c, t)' <=> Pending(c, t)
    BY <1>1 DEF SessionToolsTypeOK, Pending
  <2> QED
    BY <1>1, <2>1, <2>2 DEF ListInOrder
<1>5. ChildrenOwned'
  BY <1>1, ChildrenUntouched
<1> QED
  BY <1>3, <1>4, <1>5

\* The end of a call that is not waiting to emit, whatever it reports.
LEMMA EndKeepsTools ==
  ASSUME SessionToolsIInv, NEW c \in Call, NEW r \in SubCall, sub' = [sub EXCEPT ![c] = r],
         UNCHANGED <<todo, idCounter, emitted, cleared, children>>,
         sub[c].at # "emit", r.at # "emit",
         r.child # NoSession => r.child = sub[c].child /\ r.session = sub[c].session
  PROVE  SessionToolsIInv'
<1> USE DEF SessionToolsIInv
<1>1. sub'[c] = r /\ (\A d \in Call : d # c => sub'[d] = sub[d]) /\ sub' \in [Call -> SubCall]
  BY DEF SessionToolsTypeOK
<1>2. SessionToolsTypeOK'
  BY <1>1 DEF SessionToolsTypeOK
<1>3. \A d \in Call, s \in TopSession :
        (Pending(d, s)' <=> Pending(d, s)) /\ (Pending(d, s) => sub'[d].snap = sub[d].snap)
  BY <1>1 DEF Pending
<1>4. ListsInOrder'
  BY <1>3, ListsUntouched
<1>5. ChildrenOwned'
  BY <1>1, ChildrenUntouched
<1> QED
  BY <1>2, <1>4, <1>5

LEMMA ReturnKeepsTools ==
  ASSUME SessionToolsIInv, NEW c \in Call, AgentReturns(c) \/ AskUser(c)
  PROVE  SessionToolsIInv'
<1>t. sub \in [Call -> SubCall] /\ sub[c] \in SubCall
  BY DEF SessionToolsIInv, SessionToolsTypeOK
<1>1. CASE AgentReturns(c)
  <2>1. PICK result \in {"ok", "error"} : sub' = [sub EXCEPT ![c].at = "done", ![c].result = result]
    BY <1>1 DEF AgentReturns
  <2>2. PICK r : r = [sub[c] EXCEPT !.at = "done", !.result = result]
    OBVIOUS
  <2>3. r \in SubCall /\ r.at = "done" /\ r.child = sub[c].child /\ r.session = sub[c].session
    BY <1>t, <2>2 DEF SubCall
  <2>4. sub' = [sub EXCEPT ![c] = r]
    BY <1>t, <2>1, <2>2
  <2> QED
    BY <1>1, <2>3, <2>4, EndKeepsTools DEF AgentReturns
<1>2. CASE AskUser(c)
  <2>1. PICK s \in TopSession, result \in {"ok", "error"} :
          sub' = [sub EXCEPT ![c] = [NotCalling EXCEPT !.op = "ask", !.session = s, !.at = "done", !.result = result]]
    BY <1>2 DEF AskUser
  <2>0. sub[c] = NotCalling
    BY <1>2 DEF AskUser
  <2>2. sub[c] = NotCalling /\ sub[c].at = "new" /\ sub[c].child = NoSession
    BY <2>0 DEF NotCalling
  <2>3. PICK r : r = [sub[c] EXCEPT !.op = "ask", !.session = s, !.at = "done", !.result = result]
    OBVIOUS
  <2>4. r \in SubCall /\ r.at = "done" /\ r.child = NoSession
    BY <1>t, <2>2, <2>3 DEF SubCall, Session
  <2>5. sub' = [sub EXCEPT ![c] = r]
    BY <2>1, <2>2, <2>3
  <2> QED
    BY <1>2, <2>2, <2>4, <2>5, EndKeepsTools DEF AskUser
<1> QED
  BY <1>1, <1>2

\* A new child under a caller: the parents of any set of children still leave it.
LEMMA ChildAdded ==
  ASSUME SessionToolsTypeOK, ChildrenOwned, NEW id \in ChildName, id \notin ChildIds,
         NEW parent \in TopSession \cup ChildIds,
         children' = children \cup {[id |-> id, parent |-> parent]}
  PROVE  /\ \A k \in children' : k.parent \in TopSession \cup ChildIds'
         /\ \A some \in SUBSET ChildIds' : some # {} =>
              \E k \in children' : k.id \in some /\ k.parent \notin some
<1> DEFINE new == [id |-> id, parent |-> parent]
<1>1. new \in children' /\ new.id = id /\ new.parent = parent
  OBVIOUS
<1>2. ChildIds' = ChildIds \cup {id}
  <2>1. ChildIds' = {k.id : k \in children'}
    BY DEF ChildIds
  <2>2. ChildIds = {k.id : k \in children}
    BY DEF ChildIds
  <2> HIDE DEF new
  <2>3. children' = children \cup {new}
    BY DEF new
  <2> QED
    BY <1>1, <2>1, <2>2, <2>3
<1>3. id \notin TopSession
  BY SessionToolsAssumption
<1>4. \A k \in children : k.parent # id
  BY <1>3 DEF ChildrenOwned
<1>5. \A k \in children' : k.parent \in TopSession \cup ChildIds'
  BY <1>2 DEF ChildrenOwned
<1>6. ASSUME NEW some \in SUBSET ChildIds', some # {}
      PROVE  \E k \in children' : k.id \in some /\ k.parent \notin some
  <2>1. CASE some \ {id} = {}
    <3>1. some = {id} /\ parent # id
      BY <1>3, <1>6, <2>1
    <3> QED
      BY <1>1, <3>1
  <2>2. CASE some \ {id} # {}
    <3>1. some \ {id} \in SUBSET ChildIds
      BY <1>2
    <3>2. PICK k \in children : k.id \in some \ {id} /\ k.parent \notin some \ {id}
      BY <2>2, <3>1 DEF ChildrenOwned
    <3> QED
      BY <1>4, <3>2
  <2> QED
    BY <2>1, <2>2
<1> QED
  BY <1>5, <1>6

LEMMA CallAgentKeepsTools ==
  ASSUME SessionToolsIInv, NEW c \in Call, NEW parent \in Caller, CallAgent(c, parent)
  PROVE  SessionToolsIInv'
<1> USE DEF SessionToolsIInv
<1>0. sub[c] = NotCalling /\ UNCHANGED <<todo, idCounter, emitted, cleared>>
  BY DEF CallAgent
<1>c. sub[c].at = "new" /\ sub[c].child = NoSession
  BY <1>0 DEF NotCalling
<1>t. sub \in [Call -> SubCall] /\ sub[c] \in SubCall
  BY DEF SessionToolsTypeOK
<1>p. parent \in TopSession \cup ChildIds
  <2>1. \A d \in Call : sub[d].child # NoSession => sub[d].child \in ChildIds
    BY ChildStored DEF ChildrenOwned
  <2> QED
    BY <2>1 DEF Caller
<1>s. parent \in Session /\ parent \in TopSession \cup ChildName
  BY <1>p DEF Session, ChildIds, SessionToolsTypeOK
<1>1. CASE /\ sub' = [sub EXCEPT ![c] = [NotCalling EXCEPT !.op = "agent", !.session = parent,
                                                  !.at = "done", !.result = "error"]]
           /\ UNCHANGED children
  <2>1. PICK r : r = [sub[c] EXCEPT !.op = "agent", !.session = parent, !.at = "done", !.result = "error"]
    OBVIOUS
  <2>2. r \in SubCall /\ r.at = "done" /\ r.child = NoSession
    BY <1>c, <1>s, <1>t, <2>1 DEF SubCall
  <2>3. sub' = [sub EXCEPT ![c] = r]
    BY <1>0, <1>1, <2>1
  <2> QED
    BY <1>0, <1>1, <1>c, <2>2, <2>3, EndKeepsTools
<1>2. ASSUME NEW id \in ChildName, NEW ok \in BOOLEAN, CreateChild(id, parent, ok),
             sub' = [sub EXCEPT ![c] =
               [NotCalling EXCEPT !.op = "agent", !.session = parent, !.at = IF ok THEN "run" ELSE "done",
                            !.child = IF ok THEN id ELSE NoSession, !.result = IF ok THEN "none" ELSE "error"]]
      PROVE  SessionToolsIInv'
  <2>1. PICK r : r = [sub[c] EXCEPT !.op = "agent", !.session = parent, !.at = IF ok THEN "run" ELSE "done",
                        !.child = IF ok THEN id ELSE NoSession, !.result = IF ok THEN "none" ELSE "error"]
    OBVIOUS
  <2>2. /\ r \in SubCall /\ r.at # "emit" /\ r.session = parent
        /\ ~ok => r.child = NoSession
        /\ ok => r.child = id
    BY <1>c, <1>s, <1>t, <2>1 DEF SubCall
  <2>3. sub' = [sub EXCEPT ![c] = r]
    BY <1>0, <1>2, <2>1
  <2>4. CASE ~ok
    BY <1>0, <1>2, <1>c, <2>2, <2>3, <2>4, EndKeepsTools DEF CreateChild
  <2>5. CASE ok
    <3>1. id \notin ChildIds /\ children' = children \cup {[id |-> id, parent |-> parent]}
      BY <1>2, <2>5 DEF CreateChild
    <3>2. sub'[c] = r /\ (\A d \in Call : d # c => sub'[d] = sub[d]) /\ sub' \in [Call -> SubCall]
      BY <1>t, <2>2, <2>3
    <3>3. SessionToolsTypeOK'
      BY <1>0, <1>s, <3>1, <3>2 DEF SessionToolsTypeOK
    <3>4. ListsInOrder'
      BY <1>0, <1>c, <2>2, <3>2, ListsUntouched DEF Pending
    <3>5. \A d \in Call : sub[d].child # NoSession => sub[d].child # id
      BY <3>1, ChildStored DEF ChildrenOwned
    <3>6. id # NoSession
      BY SessionToolsAssumption
    <3>7. \A d, e \in Call : d # e /\ sub'[d].child # NoSession => sub'[d].child # sub'[e].child
      BY <2>2, <2>5, <3>2, <3>5, <3>6 DEF ChildrenOwned
    <3>8. \A d \in Call : sub'[d].child # NoSession =>
            [id |-> sub'[d].child, parent |-> sub'[d].session] \in children'
      BY <2>2, <2>5, <3>1, <3>2 DEF ChildrenOwned
    <3>9. ChildrenOwned'
      BY <1>p, <3>1, <3>7, <3>8, ChildAdded DEF ChildrenOwned
    <3> QED
      BY <3>3, <3>4, <3>9
  <2> QED
    BY <2>4, <2>5
<1> QED
  BY <1>1, <1>2 DEF CallAgent

\* Once nobody of a session is between an update and its event, its list is
\* the one of the event with the highest version.
LEMMA InOrderConverges == SessionToolsIInv => TodoConverges
<1> SUFFICES ASSUME SessionToolsIInv, NEW s \in TopSession \ cleared
             PROVE  LET events == {e \in emitted : e.session = s} IN
                    /\ \A e, f \in events : e.version = f.version => e = f
                    /\ (todo[s] # NoList /\ \A c \in Call : sub[c].session = s => sub[c].at # "emit") =>
                         \E e \in events : /\ e.items = todo[s].items
                                           /\ \A f \in events : f.version <= e.version
  BY DEF TodoConverges
<1>1. ListInOrder(s)
  BY DEF SessionToolsIInv, ListsInOrder
<1>2. todo[s].version \in Nat
  BY DEF SessionToolsIInv, SessionToolsTypeOK, ListSnapshot
<1> QED
  BY <1>1, <1>2 DEF ListInOrder, Pending

\* For any number of calls, sessions and items: the versions tell the latest of
\* the todo lists sent out, even out of order, and every sub-agent has a stored
\* child session of its own whose parents lead to a session of the host.
THEOREM ListsConvergeChildrenOwned == SessionToolsSpec => []SessionToolsSound
<1>1. SessionToolsInit => SessionToolsIInv
  BY SessionToolsInitial
<1>2. SessionToolsIInv /\ [SessionToolsStep]_sessionToolVars => SessionToolsIInv'
  <2> SUFFICES ASSUME SessionToolsIInv, [SessionToolsStep]_sessionToolVars
               PROVE  SessionToolsIInv'
    OBVIOUS
  <2>1. CASE UNCHANGED sessionToolVars
    <3>1. ListsInOrder'
      BY <2>1, ListsUntouched DEF sessionToolVars, SessionToolsIInv, Pending
    <3>2. ChildrenOwned'
      BY <2>1, ChildrenUntouched DEF sessionToolVars, SessionToolsIInv
    <3> QED
      BY <2>1, <3>1, <3>2 DEF sessionToolVars, SessionToolsIInv, SessionToolsTypeOK
  <2> QED
    BY <2>1, ApplyKeepsTools, EmitKeepsTools, ClearKeepsTools, ReturnKeepsTools, CallAgentKeepsTools
       DEF SessionToolsStep
<1>3. SessionToolsIInv => SessionToolsSound
  BY InOrderConverges DEF SessionToolsSound, SessionToolsIInv
<1> QED
  BY <1>1, <1>2, <1>3, PTL DEF SessionToolsSpec
=============================================================================
