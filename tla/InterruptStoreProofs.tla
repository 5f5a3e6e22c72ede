------------------------ MODULE InterruptStoreProofs ------------------------
(***************************************************************************)
(* Proofs about InterruptStore, for any number of records, owners, tool    *)
(* calls, batch lengths and lease durations.                               *)
(***************************************************************************)
EXTENDS InterruptStore, InterruptLogicProofs

-----------------------------------------------------------------------------
\* A batch is a sequence of decisions.
LEMMA BatchType ==
  ASSUME NEW ds \in Batches
  PROVE  /\ ds \in Seq(Decision)
         /\ Len(ds) \in Nat
         /\ DOMAIN ds = 1..Len(ds)
<1>1. PICK n \in 0..MaxBatch : ds \in [1..n -> Decision]
  BY DEF Batches
<1>2. n \in Nat
  BY StoreAssumption
<1>3. ds \in Seq(Decision)
  BY <1>1, <1>2
<1> QED BY <1>3

-----------------------------------------------------------------------------
\* The inductive invariant.  OneLiveHolder is not inductive: that a takeover
\* leaves no second live grant needs GrantHonoured (the old holder's grant
\* is the lease on record, which has run out), and that a new record starts
\* without grants and credits needs FreshIds.
IInv ==
  /\ TypeOK
  /\ DecidedBeforeReady
  /\ LeaseShape
  /\ OneLiveHolder
  /\ GrantHonoured
  /\ FreshIds
  /\ CreditedOnce

\* An empty store satisfies the inductive invariant.
LEMMA InitIInv == Init => IInv
<1> SUFFICES ASSUME Init PROVE IInv
  OBVIOUS
<1>1. TypeOK
  BY DEF Init, TypeOK, ZeroTime
<1>2. \A id \in RecordId : ~Exists(id)
  BY DEF Init, Exists
<1>3. OneLiveHolder /\ FreshIds
  BY <1>2 DEF Init, OneLiveHolder, FreshIds, ZeroTime
<1> QED
  BY <1>1, <1>2, <1>3 DEF IInv, DecidedBeforeReady, LeaseShape, GrantHonoured, CreditedOnce

\* Create keeps the invariant: the id is fresh, so nobody holds a grant on
\* it or has been credited with a decision of it.
LEMMA CreateIInv ==
  ASSUME IInv, NEW id \in RecordId, NEW meta \in Meta, NEW pending \in SUBSET ToolCall,
         Create(id, meta, pending)
  PROVE  IInv'
<1> DEFINE new == NewRecord(meta, pending)
<1>1. /\ id \notin minted
      /\ store' = [store EXCEPT ![id] = new]
      /\ minted' = minted \cup {id}
      /\ now' = now /\ granted' = granted /\ credited' = credited
      /\ pending # {}
  BY DEF Create
<1>2. /\ new \in Record /\ new.status = "pending" /\ new.owner = NoOwner
      /\ new.expires = ZeroTime /\ \A c \in ToolCall : new.decisions[c] = Undecided
  BY <1>1, NewRecordFacts
<1> HIDE DEF new
<1>3. TypeOK'
  BY <1>1, <1>2 DEF IInv, TypeOK
<1>4. \A x \in RecordId : store'[x] = IF x = id THEN new ELSE store[x]
  BY <1>1 DEF IInv, TypeOK
<1>5. (DecidedBeforeReady /\ LeaseShape)'
  BY <1>2, <1>4 DEF IInv, DecidedBeforeReady, LeaseShape, Exists
<1>6. (OneLiveHolder /\ FreshIds)'
  BY <1>1, <1>4 DEF IInv, TypeOK, OneLiveHolder, FreshIds, Exists
<1>7. GrantHonoured'
  <2>1. \A o \in Owner : ~(granted[o][id] > now)
    BY <1>1 DEF IInv, TypeOK, FreshIds, ZeroTime
  <2> QED BY <1>1, <1>4, <2>1 DEF IInv, GrantHonoured, Exists
<1>8. CreditedOnce'
  BY <1>1, <1>2, <1>4 DEF IInv, CreditedOnce, FreshIds, Exists
<1> QED BY <1>3, <1>5, <1>6, <1>7, <1>8 DEF IInv

\* SubmitDecisions keeps the invariant: it credits exactly the calls whose
\* verdict it is the first to write.
LEMMA SubmitIInv ==
  ASSUME IInv, NEW id \in RecordId, NEW ds \in Batches, SubmitDecisions(id, ds)
  PROVE  IInv'
<1> DEFINE old == store[id]
           D == MergedDecisions(old, ds)
           new == CommitAudit(old, D)
<1>1. /\ Exists(id) /\ old \in Record
      /\ ApplyDecisions(old, ds).committed # {}
  BY DEF SubmitDecisions, Writable, Exists, IInv, TypeOK
<1>2. /\ store' = [store EXCEPT ![id] = new]
      /\ credited' = Credit(id, Committed(old, ds))
      /\ minted' = minted /\ now' = now /\ granted' = granted
  BY <1>1, SubmitFacts, BatchType DEF SubmitDecisions
<1>3. /\ D \in [ToolCall -> Verdict \cup {Undecided}]
      /\ \A c \in Committed(old, ds) : old.decisions[c] = Undecided /\ D[c] # Undecided
      /\ \A c \in ToolCall \ Committed(old, ds) : D[c] = old.decisions[c]
  BY <1>1, MergedFacts, BatchType
<1>4. /\ new \in Record /\ new.decisions = D /\ new.pending = old.pending
      /\ new.owner = old.owner /\ new.expires = old.expires
      /\ \/ new.status = old.status
         \/ /\ old.status = "pending" /\ new.status = "ready"
            /\ AllDecided(old.pending, D)
  BY <1>1, CommitAuditFacts, BatchType
<1>5. AllDecided(old.pending, old.decisions) => AllDecided(old.pending, D)
  BY <1>1, StillDecided, BatchType
<1> HIDE DEF old, D, new
<1>6. \A x \in RecordId : store'[x] = IF x = id THEN new ELSE store[x]
  BY <1>2 DEF IInv, TypeOK
<1>7. Absent \notin Record
  BY StoreAssumption
<1>8. /\ credited' \in [RecordId -> [ToolCall -> Nat]]
      /\ \A x \in RecordId \ {id} : credited'[x] = credited[x]
      /\ \A c \in ToolCall : credited'[id][c] =
           IF c \in Committed(old, ds) THEN credited[id][c] + 1 ELSE credited[id][c]
  BY <1>2 DEF IInv, TypeOK, Credit
<1>9. TypeOK'
  BY <1>2, <1>4, <1>8 DEF IInv, TypeOK
<1>10. DecidedBeforeReady'
  BY <1>1, <1>4, <1>5, <1>6 DEF IInv, DecidedBeforeReady, AllDecided, Exists, old
<1>11. LeaseShape'
  BY <1>1, <1>4, <1>6 DEF IInv, LeaseShape, Exists, old
<1>12. GrantHonoured'
  BY <1>1, <1>2, <1>4, <1>6 DEF IInv, GrantHonoured, Exists, old
<1>13. OneLiveHolder'
  BY <1>2 DEF IInv, OneLiveHolder
<1>14. FreshIds'
  BY <1>1, <1>2, <1>6, <1>8 DEF IInv, FreshIds, Exists
<1>15. CreditedOnce'
  <2> SUFFICES ASSUME NEW x \in RecordId, Exists(x)', NEW c \in ToolCall
               PROVE  credited'[x][c] = IF store'[x].decisions[c] = Undecided THEN 0 ELSE 1
    BY DEF CreditedOnce
  <2>1. CASE x # id
    BY <2>1, <1>6, <1>8 DEF IInv, CreditedOnce, Exists
  <2>2. CASE x = id /\ c \in Committed(old, ds)
    BY <2>2, <1>1, <1>3, <1>4, <1>6, <1>8 DEF IInv, CreditedOnce, Exists, old
  <2>3. CASE x = id /\ c \notin Committed(old, ds)
    BY <2>3, <1>1, <1>3, <1>4, <1>6, <1>8 DEF IInv, CreditedOnce, Exists, old
  <2> QED BY <2>1, <2>2, <2>3
<1> QED BY <1>9, <1>10, <1>11, <1>12, <1>13, <1>14, <1>15 DEF IInv

\* AcquireLease keeps the invariant, with a clock reading t that may be
\* older than the time it writes: a grant that is live now was live at t.
LEMMA AcquireIInv ==
  ASSUME IInv, NEW id \in RecordId, NEW o \in Owner, NEW ttl \in LeaseTTL,
         NEW t \in 1..now, AcquireLease(id, o, ttl, t)
  PROVE  IInv'
<1> DEFINE old == store[id]
           new == AcquireLeaseOn(old, o, ttl, t).rec
<1>1. /\ Exists(id) /\ old \in Record
      /\ AcquireLeaseOn(old, o, ttl, t).err = "nil"
      /\ store' = [store EXCEPT ![id] = new]
      /\ granted' = [granted EXCEPT ![o][id] = t + ttl]
      /\ minted' = minted /\ now' = now /\ credited' = credited
  BY DEF AcquireLease, Writable, Exists, IInv, TypeOK
<1>2. /\ ttl \in Nat /\ t \in Nat /\ t >= 1 /\ t <= now /\ now \in Nat
      /\ t + ttl \in Nat
  BY StoreAssumption DEF IInv, TypeOK
<1>3. /\ old.status \in {"ready", "resuming"}
      /\ ~LeaseLive(old, t)
      /\ new \in Record
  <2> HIDE DEF old
  <2> QED BY <1>1, <1>2, AcquireFacts
<1>4. /\ new.status = "resuming" /\ new.owner = o /\ new.expires = t + ttl
      /\ new.pending = old.pending /\ new.decisions = old.decisions
  <2> HIDE DEF old
  <2> QED BY <1>1, <1>2, AcquireFacts
<1> HIDE DEF new, old
<1>5. \A x \in RecordId : store'[x] = IF x = id THEN new ELSE store[x]
  BY <1>1 DEF IInv, TypeOK
<1>6. /\ granted' \in [Owner -> [RecordId -> Nat]]
      /\ granted'[o][id] = t + ttl
      /\ \A p \in Owner, x \in RecordId :
           (p # o \/ x # id) => granted'[p][x] = granted[p][x]
  BY <1>1, <1>2 DEF IInv, TypeOK
\* The previous holder's grant, if any, has run out.
<1>7. \A p \in Owner : ~(granted[p][id] > now)
  <2> SUFFICES ASSUME NEW p \in Owner, granted[p][id] > now PROVE FALSE
    OBVIOUS
  <2>1. old.status = "resuming" /\ old.expires = granted[p][id]
    BY <1>1 DEF IInv, GrantHonoured, old
  <2>2. granted[p][id] \in Nat
    BY DEF IInv, TypeOK
  <2> QED BY <1>2, <1>3, <2>1, <2>2 DEF LeaseLive
<1>8. TypeOK'
  BY <1>1, <1>3, <1>6 DEF IInv, TypeOK
<1>9. DecidedBeforeReady'
  BY <1>1, <1>3, <1>4, <1>5 DEF IInv, DecidedBeforeReady, Exists, old
<1>10. LeaseShape'
  <2>1. t + ttl # ZeroTime /\ o # NoOwner
    BY <1>2, LogicAssumption DEF ZeroTime
  <2> QED BY <1>4, <1>5, <2>1 DEF IInv, LeaseShape, Exists
<1>11. OneLiveHolder'
  <2> SUFFICES ASSUME NEW x \in RecordId, NEW p \in Owner, NEW q \in Owner,
                      granted'[p][x] > now, granted'[q][x] > now
               PROVE  p = q
    BY <1>1 DEF OneLiveHolder
  <2>1. CASE x = id
    BY <2>1, <1>6, <1>7
  <2>2. CASE x # id
    BY <2>2, <1>6 DEF IInv, OneLiveHolder
  <2> QED BY <2>1, <2>2
<1>12. GrantHonoured'
  <2> SUFFICES ASSUME NEW x \in RecordId, Exists(x)', NEW p \in Owner, granted'[p][x] > now
               PROVE  /\ store'[x].status = "resuming" /\ store'[x].owner = p
                      /\ store'[x].expires = granted'[p][x]
    BY <1>1 DEF GrantHonoured
  <2>1. CASE x = id
    BY <2>1, <1>4, <1>5, <1>6, <1>7
  <2>2. CASE x # id
    BY <2>2, <1>5, <1>6 DEF IInv, GrantHonoured, Exists
  <2> QED BY <2>1, <2>2
<1>13. FreshIds'
  <2>1. id \in minted
    BY <1>1 DEF IInv, FreshIds
  <2> QED BY <1>1, <1>5, <1>6, <2>1 DEF IInv, FreshIds, Exists
<1>14. CreditedOnce'
  BY <1>1, <1>4, <1>5 DEF IInv, CreditedOnce, Exists, old
<1> QED BY <1>8, <1>9, <1>10, <1>11, <1>12, <1>13, <1>14 DEF IInv

\* ReleaseLease and Complete end the caller's own lease in the same way.
LEMMA EndIInv ==
  ASSUME IInv, NEW id \in RecordId, NEW o \in Owner, NEW s \in {"ready", "completed"},
         Exists(id), OwnsLease(store[id], o),
         store' = [store EXCEPT ![id] = EndLease(store[id], s)],
         granted' = [granted EXCEPT ![o][id] = ZeroTime],
         UNCHANGED <<minted, now, credited>>
  PROVE  IInv'
<1> DEFINE old == store[id]
           new == EndLease(old, s)
<1>1. old \in Record
  BY DEF Exists, IInv, TypeOK
<1>2. /\ new \in Record
      /\ new.status = s /\ new.owner = NoOwner /\ new.expires = ZeroTime
      /\ new.pending = old.pending /\ new.decisions = old.decisions
  BY <1>1, EndFacts
<1>3. store' = [store EXCEPT ![id] = new]
  OBVIOUS
<1> HIDE DEF new, old
<1>5. \A x \in RecordId : store'[x] = IF x = id THEN new ELSE store[x]
  BY <1>3 DEF IInv, TypeOK
<1>6. /\ granted' \in [Owner -> [RecordId -> Nat]]
      /\ granted'[o][id] = 0
      /\ \A p \in Owner, x \in RecordId :
           (p # o \/ x # id) => granted'[p][x] = granted[p][x]
  BY DEF IInv, TypeOK, ZeroTime
<1>7. old.status = "resuming" /\ old.owner = o /\ now \in Nat
  BY DEF OwnsLease, old, IInv, TypeOK
\* Nobody but the owner had a live grant.
<1>8. \A p \in Owner : ~(granted'[p][id] > now)
  <2> SUFFICES ASSUME NEW p \in Owner, granted'[p][id] > now PROVE FALSE
    OBVIOUS
  <2>1. p # o
    BY <1>6, <1>7
  <2>2. granted[p][id] > now
    BY <1>6, <2>1
  <2> QED BY <1>7, <2>1, <2>2 DEF IInv, GrantHonoured, old
<1>9. TypeOK'
  BY <1>2, <1>3, <1>6 DEF IInv, TypeOK
<1>10. DecidedBeforeReady'
  BY <1>2, <1>5, <1>7 DEF IInv, DecidedBeforeReady, Exists, old
<1>11. LeaseShape'
  BY <1>2, <1>5 DEF IInv, LeaseShape, Exists
<1>12. (OneLiveHolder /\ GrantHonoured)'
  BY <1>5, <1>6, <1>8 DEF IInv, OneLiveHolder, GrantHonoured, Exists
<1>13. FreshIds'
  <2>1. id \in minted
    BY DEF IInv, FreshIds
  <2> QED BY <1>5, <1>6, <2>1 DEF IInv, FreshIds, Exists
<1>14. CreditedOnce'
  BY <1>2, <1>5 DEF IInv, CreditedOnce, Exists, old
<1> QED BY <1>9, <1>10, <1>11, <1>12, <1>13, <1>14 DEF IInv

\* Delete keeps the invariant: it removes the record and frees no id.
LEMMA DeleteIInv ==
  ASSUME IInv, NEW id \in RecordId, Delete(id)
  PROVE  IInv'
<1>1. \A x \in RecordId : store'[x] = IF x = id THEN Absent ELSE store[x]
  BY DEF Delete, IInv, TypeOK
<1>2. now' = now /\ minted' = minted /\ granted' = granted /\ credited' = credited
  BY DEF Delete
<1>3. TypeOK'
  BY <1>2 DEF Delete, IInv, TypeOK
<1>4. (DecidedBeforeReady /\ LeaseShape)'
  BY <1>1 DEF IInv, DecidedBeforeReady, LeaseShape, Exists
<1>5. (OneLiveHolder /\ GrantHonoured)'
  BY <1>1, <1>2 DEF IInv, OneLiveHolder, GrantHonoured, Exists
<1>6. (FreshIds /\ CreditedOnce)'
  BY <1>1, <1>2 DEF IInv, FreshIds, CreditedOnce, Exists
<1> QED BY <1>3, <1>4, <1>5, <1>6 DEF IInv

\* Time keeps the invariant: it can only end grants.
LEMMA TickIInv ==
  ASSUME IInv, Tick
  PROVE  IInv'
<1>1. /\ now \in Nat /\ now' = now + 1
      /\ store' = store /\ minted' = minted /\ granted' = granted /\ credited' = credited
  BY DEF Tick, IInv, TypeOK
<1>2. TypeOK'
  BY <1>1 DEF IInv, TypeOK
<1>3. \A o \in Owner, id \in RecordId : granted[o][id] > now' => granted[o][id] > now
  BY <1>1 DEF IInv, TypeOK
<1>4. (OneLiveHolder /\ GrantHonoured)'
  BY <1>1, <1>3 DEF IInv, OneLiveHolder, GrantHonoured, Exists
<1>5. (DecidedBeforeReady /\ LeaseShape /\ FreshIds /\ CreditedOnce)'
  BY <1>1 DEF IInv, DecidedBeforeReady, LeaseShape, FreshIds, CreditedOnce, Exists
<1> QED BY <1>2, <1>4, <1>5 DEF IInv

\* Every step of the store keeps the invariant.
LEMMA NextIInv == IInv /\ [Next]_vars => IInv'
<1> SUFFICES ASSUME IInv, [Next]_vars PROVE IInv'
  OBVIOUS
<1>1. CASE Tick
  BY <1>1, TickIInv
<1>2. ASSUME NEW id \in RecordId, NEW meta \in Meta, NEW pending \in SUBSET ToolCall,
             Create(id, meta, pending)
      PROVE  IInv'
  BY <1>2, CreateIInv
<1>3. ASSUME NEW id \in RecordId, NEW ds \in Batches, SubmitDecisions(id, ds)
      PROVE  IInv'
  BY <1>3, SubmitIInv
<1>4. ASSUME NEW id \in RecordId, NEW o \in Owner, NEW ttl \in LeaseTTL,
             NEW t \in 1..now, AcquireLease(id, o, ttl, t)
      PROVE  IInv'
  BY <1>4, AcquireIInv
<1>5. ASSUME NEW id \in RecordId, NEW o \in Owner, ReleaseLease(id, o)
      PROVE  IInv'
  <2>1. Exists(id) /\ store[id] \in Record /\ ReleaseLeaseOn(store[id], o).err = "nil"
    BY <1>5 DEF ReleaseLease, Writable, Exists, IInv, TypeOK
  <2>2. /\ OwnsLease(store[id], o)
        /\ ReleaseLeaseOn(store[id], o).rec = EndLease(store[id], "ready")
    BY <2>1, ReleaseFacts
  <2>3. /\ store' = [store EXCEPT ![id] = EndLease(store[id], "ready")]
        /\ granted' = [granted EXCEPT ![o][id] = ZeroTime]
        /\ UNCHANGED <<minted, now, credited>>
    BY <1>5, <2>2 DEF ReleaseLease
  <2> QED BY <2>1, <2>2, <2>3, EndIInv
<1>6. ASSUME NEW id \in RecordId, NEW o \in Owner, Complete(id, o)
      PROVE  IInv'
  <2>1. Exists(id) /\ store[id] \in Record /\ CompleteOn(store[id], o).err = "nil"
    BY <1>6 DEF Complete, Writable, Exists, IInv, TypeOK
  <2>2. /\ OwnsLease(store[id], o)
        /\ CompleteOn(store[id], o).rec = EndLease(store[id], "completed")
    BY <2>1, CompleteFacts
  <2>3. /\ store' = [store EXCEPT ![id] = EndLease(store[id], "completed")]
        /\ granted' = [granted EXCEPT ![o][id] = ZeroTime]
        /\ UNCHANGED <<minted, now, credited>>
    BY <1>6, <2>2 DEF Complete
  <2> QED BY <2>1, <2>2, <2>3, EndIInv
<1>7. ASSUME NEW id \in RecordId, Delete(id)
      PROVE  IInv'
  BY <1>7, DeleteIInv
<1>8. CASE UNCHANGED vars
  BY <1>8 DEF vars, IInv, TypeOK, DecidedBeforeReady, LeaseShape, OneLiveHolder,
              GrantHonoured, FreshIds, CreditedOnce, Exists
<1> QED BY <1>1, <1>2, <1>3, <1>4, <1>5, <1>6, <1>7, <1>8 DEF Next

\* The inductive invariant holds in every state the interrupt store reaches.
THEOREM StoreIInv == Spec => []IInv
BY InitIInv, NextIInv, PTL DEF Spec

-----------------------------------------------------------------------------
\* The store's type is invariant: no operation of the interrupt store writes
\* a malformed record.
THEOREM StoreTypeCorrect == Spec => []TypeOK
BY StoreIInv, PTL DEF IInv

\* A record that left the pending state has a verdict for every pending call.
THEOREM StoreDecidedBeforeReady == Spec => []DecidedBeforeReady
BY StoreIInv, PTL DEF IInv

\* Lease fields are set exactly while a record is resuming.
THEOREM StoreLeaseShape == Spec => []LeaseShape
BY StoreIInv, PTL DEF IInv

\* Mutual exclusion of resumes: however leases expire and are taken over, at
\* most one owner was told of a lease that has not run out.
THEOREM StoreOneLiveHolder == Spec => []OneLiveHolder
BY StoreIInv, PTL DEF IInv

\* A lease that has not run out is still the one on record.
THEOREM StoreGrantHonoured == Spec => []GrantHonoured
BY StoreIInv, PTL DEF IInv

\* Exactly one submitter is credited with each decision.
THEOREM StoreCreditedOnce == Spec => []CreditedOnce
BY StoreIInv, PTL DEF IInv

-----------------------------------------------------------------------------
\* What one step may do to a record: decide more calls while it is pending,
\* lease it when no lease is live, or end a lease.
Extends(old, new) ==
  \A c \in ToolCall : old.decisions[c] # Undecided => new.decisions[c] = old.decisions[c]

Moved(old, new) ==
  /\ new.rev = old.rev + 1
  /\ new.meta = old.meta /\ new.pending = old.pending
  /\ Extends(old, new)
  /\ \/ old.status = "pending" /\ new.status \in {"pending", "ready"}
     \/ /\ old.status \in {"ready", "resuming"} /\ ~LeaseLive(old, now)
        /\ new.status = "resuming"
     \/ old.status = "resuming" /\ new.status \in {"ready", "completed"}

\* Every step leaves a record that stays in the store alone or makes one of
\* the three moves on it.
LEMMA StepMoves ==
  ASSUME IInv, [Next]_vars, NEW id \in RecordId, Kept(id)
  PROVE  store'[id] = store[id] \/ Moved(store[id], store'[id])
<1>1. /\ Exists(id) /\ store[id] \in Record /\ store'[id] # Absent
      /\ store \in [RecordId -> Record \cup {Absent}] /\ now \in Nat
  BY DEF Kept, Exists, IInv, TypeOK
<1>2. ASSUME NEW x \in RecordId, NEW meta \in Meta, NEW pending \in SUBSET ToolCall,
             Create(x, meta, pending)
      PROVE  store'[id] = store[id]
  BY <1>1, <1>2 DEF Create, IInv, FreshIds
<1>3. ASSUME NEW x \in RecordId, NEW ds \in Batches, SubmitDecisions(x, ds)
      PROVE  store'[id] = store[id] \/ Moved(store[id], store'[id])
  <2>1. CASE x # id
    BY <1>1, <1>3, <2>1 DEF SubmitDecisions
  <2>2. CASE x = id
    <3> DEFINE old == store[id]
               new == CommitAudit(old, MergedDecisions(old, ds))
    <3>1. old \in Record /\ ApplyDecisions(old, ds).committed # {}
      BY <1>1, <1>3, <2>2 DEF SubmitDecisions
    <3>2. /\ ApplyDecisions(old, ds).committed = Committed(old, ds)
          /\ ApplyDecisions(old, ds).rec = new
      BY <3>1, SubmitFacts, BatchType
    <3>3. store'[id] = new
      BY <1>1, <1>3, <2>2, <3>2 DEF SubmitDecisions
    <3>4. old.status = "pending"
      BY <1>1, <3>1, <3>2, OnlyPendingCommits, BatchType DEF IInv, DecidedBeforeReady, AllDecided
    <3>5. /\ new.rev = old.rev + 1
          /\ new.decisions = MergedDecisions(old, ds)
          /\ new.status \in {"pending", "ready"}
          /\ new.meta = old.meta /\ new.pending = old.pending
      BY <3>1, <3>4, CommitAuditFacts, BatchType
    <3>6. Extends(old, new)
      BY <3>1, <3>5, MergedFacts, BatchType DEF Extends
    <3> QED BY <3>3, <3>4, <3>5, <3>6 DEF Moved
  <2> QED BY <2>1, <2>2
<1>4. ASSUME NEW x \in RecordId, NEW o \in Owner, NEW ttl \in LeaseTTL,
             NEW t \in 1..now, AcquireLease(x, o, ttl, t)
      PROVE  store'[id] = store[id] \/ Moved(store[id], store'[id])
  <2>1. CASE x # id
    BY <1>1, <1>4, <2>1 DEF AcquireLease
  <2>2. CASE x = id
    <3> DEFINE old == store[id]
               new == AcquireLeaseOn(old, o, ttl, t).rec
    <3>1. /\ old \in Record /\ AcquireLeaseOn(old, o, ttl, t).err = "nil"
          /\ ttl \in Nat /\ t \in Nat
      BY <1>1, <1>4, <2>2, StoreAssumption DEF AcquireLease
    <3>2. store'[id] = new
      BY <1>1, <1>4, <2>2 DEF AcquireLease
    <3> HIDE DEF old
    <3>3. /\ old.status \in {"ready", "resuming"} /\ ~LeaseLive(old, t)
          /\ new.rev = old.rev + 1 /\ new.status = "resuming"
          /\ new.decisions = old.decisions
          /\ new.meta = old.meta /\ new.pending = old.pending
      BY <3>1, AcquireFacts
    <3>4. ~LeaseLive(old, now)
      <4>1. t <= now
        BY <1>1
      <4> QED BY <1>1, <3>1, <3>3, <4>1 DEF LeaseLive, Record
    <3> QED BY <3>3, <3>4, <3>2 DEF Moved, Extends, old
  <2> QED BY <2>1, <2>2
<1>5. ASSUME NEW x \in RecordId, NEW o \in Owner, ReleaseLease(x, o) \/ Complete(x, o)
      PROVE  store'[id] = store[id] \/ Moved(store[id], store'[id])
  <2>1. CASE x # id
    BY <1>1, <1>5, <2>1 DEF ReleaseLease, Complete
  <2>2. CASE x = id
    <3>1. /\ OwnsLease(store[id], o)
          /\ \E s \in {"ready", "completed"} : store'[id] = EndLease(store[id], s)
      BY <1>1, <1>5, <2>2, ReleaseFacts, CompleteFacts DEF ReleaseLease, Complete
    <3> QED BY <1>1, <3>1, EndFacts DEF OwnsLease, Moved, Extends
  <2> QED BY <2>1, <2>2
<1>6. ASSUME NEW x \in RecordId, Delete(x)
      PROVE  store'[id] = store[id]
  BY <1>1, <1>6 DEF Delete
<1>7. CASE Tick \/ UNCHANGED vars
  BY <1>7 DEF Tick, vars
<1> QED BY <1>2, <1>3, <1>4, <1>5, <1>6, <1>7 DEF Next

\* A committed decision is never changed or withdrawn while the record is
\* there: applyDecisions never overwrites, and no lease operation touches
\* Record.Decisions.
THEOREM StoreDecisionsWriteOnce == Spec => DecisionsWriteOnce
<1>1. IInv /\ [Next]_vars =>
        [\A id \in RecordId : Kept(id) =>
           \A c \in ToolCall :
             store[id].decisions[c] # Undecided =>
               store'[id].decisions[c] = store[id].decisions[c]]_vars
  BY StepMoves DEF Moved, Extends
<1> QED BY <1>1, StoreIInv, PTL DEF Spec, DecisionsWriteOnce

\* The record's state machine has no other moves, completed is terminal, and
\* no live lease is taken over.
THEOREM StoreStatusMoves == Spec => StatusMoves
<1> DEFINE Legal(id) ==
      \/ store'[id] = store[id]
      \/ /\ store'[id].rev = store[id].rev + 1
         /\ <<store[id].status, store'[id].status>> \in
              { <<"pending", "pending">>, <<"pending", "ready">>,
                <<"ready", "resuming">>, <<"resuming", "resuming">>,
                <<"resuming", "ready">>, <<"resuming", "completed">> }
         /\ (LeaseLive(store[id], now) /\ store'[id].status = "resuming")
              => store'[id].owner = store[id].owner
<1>1. IInv /\ [Next]_vars => [\A id \in RecordId : Kept(id) => Legal(id)]_vars
  <2> SUFFICES ASSUME IInv, [Next]_vars, NEW id \in RecordId, Kept(id)
               PROVE  Legal(id)
    OBVIOUS
  <2>1. store'[id] = store[id] \/ Moved(store[id], store'[id])
    BY StepMoves
  <2>2. LeaseLive(store[id], now) => store[id].status = "resuming"
    BY DEF LeaseLive
  <2> QED BY <2>1, <2>2 DEF Moved
<1> QED BY <1>1, StoreIInv, PTL DEF Spec, StatusMoves
=============================================================================
