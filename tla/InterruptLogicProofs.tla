------------------------ MODULE InterruptLogicProofs ------------------------
(***************************************************************************)
(* What the transitions of interrupt/logic.go write, for any record and    *)
(* any batch of decisions.  The proofs about both stores rest on these     *)
(* lemmas.                                                                 *)
(***************************************************************************)
EXTENDS InterruptLogic, WellFoundedInduction, TLAPS

-----------------------------------------------------------------------------
\* Lemmas about the transition logic.

\* A non-empty set of batch positions has a first one, so the entry
\* applyDecisions commits for a call is one of the batch.
LEMMA FirstEntryInBatch ==
  ASSUME NEW ds, NEW c, NEW n \in Nat, EarlierEntries(ds, c, n) # {}
  PROVE  FirstEntry(ds, c, n) \in EarlierEntries(ds, c, n)
<1> DEFINE E == EarlierEntries(ds, c, n)
<1>1. E \subseteq Nat
  BY DEF EarlierEntries
<1>2. \E x \in E : \A y \in E : ~(<<y, x>> \in OpToRel(<, Nat))
  <2> HIDE DEF E
  <2> QED BY <1>1, NatLessThanWellFounded, WFMin DEF E
<1>3. PICK x \in E : \A y \in E : ~(<<y, x>> \in OpToRel(<, Nat))
  BY <1>2
<1>4. \A y \in E : x <= y
  <2> SUFFICES ASSUME NEW y \in E PROVE x <= y
    OBVIOUS
  <2>1. x \in Nat /\ y \in Nat
    BY <1>1
  <2>2. ~(y < x)
    BY <1>3, <2>1 DEF OpToRel
  <2> QED BY <2>1, <2>2
<1> QED BY <1>4 DEF FirstEntry

\* What a batch leaves in Record.Decisions: every call it is the first to
\* decide gets a verdict, every other call keeps what it had.
LEMMA MergedFacts ==
  ASSUME NEW rec \in Record, NEW ds \in Seq(Decision)
  PROVE  /\ MergedDecisions(rec, ds) \in [ToolCall -> Verdict \cup {Undecided}]
         /\ \A c \in Committed(rec, ds) :
              rec.decisions[c] = Undecided /\ MergedDecisions(rec, ds)[c] # Undecided
         /\ \A c \in ToolCall \ Committed(rec, ds) :
              MergedDecisions(rec, ds)[c] = rec.decisions[c]
<1> DEFINE D == MergedDecisions(rec, ds)
<1>1. ASSUME NEW c \in Committed(rec, ds)
      PROVE  rec.decisions[c] = Undecided /\ D[c] \in Verdict
  <2>1. PICK i \in Accepted(rec, ds) : ds[i].call = c
    BY DEF Committed
  <2>2. c \in ToolCall /\ rec.decisions[c] = Undecided
    BY DEF Committed
  <2>3. i \in 1..Len(ds) /\ Len(ds) \in Nat
    BY DEF Accepted
  <2>4. i \in EarlierEntries(ds, c, Len(ds) + 1)
    BY <2>1, <2>3 DEF EarlierEntries
  <2>5. FirstEntry(ds, c, Len(ds) + 1) \in EarlierEntries(ds, c, Len(ds) + 1)
    BY <2>3, <2>4, FirstEntryInBatch
  <2>6. FirstEntry(ds, c, Len(ds) + 1) \in 1..Len(ds)
    BY <2>3, <2>5 DEF EarlierEntries
  <2>7. (ds[FirstEntry(ds, c, Len(ds) + 1)]).verdict \in Verdict
    <3> DEFINE j == FirstEntry(ds, c, Len(ds) + 1)
    <3> HIDE DEF j
    <3>1. j \in 1..Len(ds)
      BY <2>6 DEF j
    <3>2. ds[j] \in Decision
      BY <3>1
    <3> QED BY <3>2 DEF Decision, j
  <2>8. D[c] = (ds[FirstEntry(ds, c, Len(ds) + 1)]).verdict
    BY <2>2 DEF MergedDecisions
  <2> QED BY <2>2, <2>7, <2>8
<1>2. ASSUME NEW c \in ToolCall \ Committed(rec, ds)
      PROVE  D[c] = rec.decisions[c] /\ D[c] \in Verdict \cup {Undecided}
  BY <1>2 DEF MergedDecisions, Record
<1>3. D \in [ToolCall -> Verdict \cup {Undecided}]
  <2>1. \A c \in ToolCall : D[c] \in Verdict \cup {Undecided}
    BY <1>1, <1>2
  <2> QED BY <2>1 DEF MergedDecisions
<1> QED BY <1>1, <1>2, <1>3, LogicAssumption

\* What a successful SubmitDecisions writes.
LEMMA SubmitFacts ==
  ASSUME NEW rec \in Record, NEW ds \in Seq(Decision),
         ApplyDecisions(rec, ds).committed # {}
  PROVE  /\ rec.status # "completed"
         /\ ApplyDecisions(rec, ds).committed = Committed(rec, ds)
         /\ ApplyDecisions(rec, ds).rec = CommitAudit(rec, MergedDecisions(rec, ds))
BY DEF ApplyDecisions

\* commitAudit touches the decisions, the revision and, from pending only,
\* the status; it leaves lease fields alone.
LEMMA CommitAuditFacts ==
  ASSUME NEW rec \in Record, NEW ds \in Seq(Decision)
  PROVE  LET D == MergedDecisions(rec, ds)
             new == CommitAudit(rec, D)
         IN  /\ new \in Record
             /\ new.decisions = D
             /\ new.pending = rec.pending
             /\ new.meta = rec.meta
             /\ new.owner = rec.owner
             /\ new.expires = rec.expires
             /\ new.rev = rec.rev + 1
             /\ \/ new.status = rec.status
                \/ /\ rec.status = "pending" /\ new.status = "ready"
                   /\ AllDecided(rec.pending, D)
<1> DEFINE D == MergedDecisions(rec, ds)
<1>1. D \in [ToolCall -> Verdict \cup {Undecided}]
  BY MergedFacts
<1> HIDE DEF D
<1>2. rec.rev + 1 \in Nat
  BY DEF Record
<1>3. CommitAudit(rec, D) \in Record
  BY <1>1, <1>2 DEF CommitAudit, Record, Status
<1> QED BY <1>3 DEF CommitAudit, Record, D

\* A batch never undoes the decisions that made a record ready.
LEMMA StillDecided ==
  ASSUME NEW rec \in Record, NEW ds \in Seq(Decision),
         AllDecided(rec.pending, rec.decisions)
  PROVE  AllDecided(rec.pending, MergedDecisions(rec, ds))
<1>1. rec.pending \subseteq ToolCall
  BY DEF Record
<1> QED BY <1>1, MergedFacts DEF AllDecided

\* What a successful AcquireLease writes: a lease to the caller, on a record
\* that was ready or whose lease had run out.
LEMMA AcquireFacts ==
  ASSUME NEW rec \in Record, NEW o \in Owner, NEW ttl \in Nat, NEW t \in Nat,
         AcquireLeaseOn(rec, o, ttl, t).err = "nil"
  PROVE  LET new == AcquireLeaseOn(rec, o, ttl, t).rec
         IN  /\ rec.status \in {"ready", "resuming"}
             /\ ~LeaseLive(rec, t)
             /\ new \in Record
             /\ new.status = "resuming" /\ new.owner = o /\ new.expires = t + ttl
             /\ new.pending = rec.pending /\ new.decisions = rec.decisions
             /\ new.meta = rec.meta /\ new.rev = rec.rev + 1
<1> DEFINE new == AcquireLeaseOn(rec, o, ttl, t).rec
<1>1. /\ rec.status \in {"ready", "resuming"}
      /\ ~LeaseLive(rec, t)
  BY DEF AcquireLeaseOn, Fail, Record, Status
<1>2. new = [rec EXCEPT !.status = "resuming", !.owner = o,
                        !.expires = t + ttl, !.rev = @ + 1]
  BY <1>1 DEF AcquireLeaseOn, Ok
<1>3. rec.rev + 1 \in Nat /\ t + ttl \in Nat
  BY DEF Record
<1>4. new \in Record
  BY <1>2, <1>3 DEF Record, Status
<1>5. /\ new.status = "resuming" /\ new.owner = o /\ new.expires = t + ttl
      /\ new.pending = rec.pending /\ new.decisions = rec.decisions
      /\ new.meta = rec.meta /\ new.rev = rec.rev + 1
  BY <1>2 DEF Record
<1> QED BY <1>1, <1>4, <1>5

\* What a successful ReleaseLease or Complete writes.
LEMMA EndFacts ==
  ASSUME NEW rec \in Record, NEW s \in {"ready", "completed"}
  PROVE  /\ EndLease(rec, s) \in Record
         /\ EndLease(rec, s).status = s
         /\ EndLease(rec, s).owner = NoOwner
         /\ EndLease(rec, s).expires = ZeroTime
         /\ EndLease(rec, s).pending = rec.pending
         /\ EndLease(rec, s).meta = rec.meta
         /\ EndLease(rec, s).decisions = rec.decisions
         /\ EndLease(rec, s).rev = rec.rev + 1
<1>1. rec.rev + 1 \in Nat
  BY DEF Record
<1> QED BY <1>1 DEF EndLease, Record, Status, ZeroTime

\* ReleaseLease succeeds for the owner of the lease only.
LEMMA ReleaseFacts ==
  ASSUME NEW rec \in Record, NEW o \in Owner, ReleaseLeaseOn(rec, o).err = "nil"
  PROVE  OwnsLease(rec, o) /\ ReleaseLeaseOn(rec, o).rec = EndLease(rec, "ready")
BY DEF ReleaseLeaseOn, Ok, Fail

\* Complete succeeds for the owner of the lease only.
LEMMA CompleteFacts ==
  ASSUME NEW rec \in Record, NEW o \in Owner, CompleteOn(rec, o).err = "nil"
  PROVE  OwnsLease(rec, o) /\ CompleteOn(rec, o).rec = EndLease(rec, "completed")
BY DEF CompleteOn, Ok, Fail

\* What Create writes.
LEMMA NewRecordFacts ==
  ASSUME NEW meta \in Meta, NEW pending \in SUBSET ToolCall, pending # {}
  PROVE  LET new == NewRecord(meta, pending)
         IN  /\ new \in Record
             /\ new.status = "pending"
             /\ new.owner = NoOwner
             /\ new.expires = ZeroTime
             /\ \A c \in ToolCall : new.decisions[c] = Undecided
<1>1. NewRecord(meta, pending) \in Record
  BY DEF NewRecord, Record, Status, ZeroTime
<1> QED BY <1>1 DEF NewRecord, Record

\* A record that is not pending has nothing left to commit.
LEMMA OnlyPendingCommits ==
  ASSUME NEW rec \in Record, NEW ds \in Seq(Decision), Committed(rec, ds) # {}
  PROVE  ~AllDecided(rec.pending, rec.decisions)
<1>1. PICK c \in Committed(rec, ds) : TRUE
  OBVIOUS
<1>2. PICK i \in Accepted(rec, ds) : ds[i].call = c
  BY DEF Committed
<1>3. rec.decisions[c] = Undecided
  BY DEF Committed
<1>4. i \in 1..i
  BY DEF Accepted
<1>5. c \in rec.pending
  BY <1>2, <1>4 DEF Accepted, Rejected, UnknownCall
<1> QED BY <1>3, <1>5 DEF AllDecided
=============================================================================
