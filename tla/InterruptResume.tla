--------------------------- MODULE InterruptResume ---------------------------
(***************************************************************************)
(* TaskAgent.ResumeInterrupt: several resume attempts, in one process or   *)
(* in several, race on the records of one session.  An attempt is a        *)
(* sequence of store calls (each atomic, see InterruptStore) with the      *)
(* policy check and the tool batch in between; between any two of them the *)
(* lease may expire, the attempt's process may die, the host may decide    *)
(* more calls or change its policy.  The record may refuse a call, and any *)
(* call may fail without effect: its context has ended or the store could  *)
(* not read or write.                                                      *)
(*                                                                         *)
(* An attempt draws a fresh lease owner token, so an element of Owner is   *)
(* one attempt.                                                            *)
(***************************************************************************)
EXTENDS InterruptStore

CONSTANTS
  Fingerprint,    \* policy fingerprints the host may have
  NoFingerprint,  \* a record without one: resume does not re-check it
  Flagged,        \* the calls of the batch that each policy flags
  NoRecord        \* the empty Supersedes

Attempt == Owner

MetaOf(supersedes, fp) == [supersedes |-> supersedes, fp |-> fp]

ASSUME ResumeAssumption ==
  /\ Flagged \in [Fingerprint -> SUBSET ToolCall]
  /\ Verdict = {"inject", "reject", "execute"}
  /\ Meta = [supersedes : RecordId \cup {NoRecord},
             fp : Fingerprint \cup {NoFingerprint}]
  /\ RecordId \subseteq Nat
  /\ NoRecord \notin RecordId
  /\ NoFingerprint \notin Fingerprint

VARIABLES
  policy,      \* the fingerprint of the host's current policy
  pc,          \* where each attempt is
  target,      \* the record it resumes
  batch,       \* the decisions of its request
  snap,        \* its copy of the record: the fields it reads
  newPolicy,   \* the fingerprint it supersedes the record for
  executed,    \* calls whose handler it has run
  \* history
  unended,     \* attempts whose Complete or ReleaseLease itself failed
  overdue,     \* <<attempt, record>>: superseded a record after losing its lease
  successorAtStart   \* attempts that began when a successor existed

attemptVars == <<pc, target, batch, snap, newPolicy, executed>>
history == <<unended, overdue, successorAtStart>>
resumeVars == <<vars, policy, attemptVars, history>>

-----------------------------------------------------------------------------
Labels ==
  { "idle", "submit", "lookup", "finish", "finishComplete", "classify",
    "acquire", "compat", "exec", "loop", "release", "complete",
    "supAcquire", "supLookup", "supCreate", "supComplete",
    "returned", "failed", "crashed" }

Successors(old) == {id \in RecordId : Exists(id) /\ store[id].meta.supersedes = old}

ResumeTypeOK ==
  /\ TypeOK
  /\ policy \in Fingerprint
  /\ pc \in [Attempt -> Labels]
  /\ target \in [Attempt -> RecordId \cup {NoRecord}]
  /\ batch \in [Attempt -> Batches]
  /\ snap \in [Attempt -> [status : Status, meta : Meta,
       pending : SUBSET ToolCall, decisions : [ToolCall -> Verdict \cup {Undecided}]]
         \cup {Absent}]
  /\ newPolicy \in [Attempt -> Fingerprint \cup {NoFingerprint}]
  /\ executed \in [Attempt -> SUBSET ToolCall]
  /\ unended \in SUBSET Attempt
  /\ overdue \in SUBSET (Attempt \X RecordId)
  /\ successorAtStart \in SUBSET Attempt

ResumeInit ==
  /\ Init
  /\ policy \in Fingerprint
  /\ pc = [a \in Attempt |-> "idle"]
  /\ target = [a \in Attempt |-> NoRecord]
  /\ batch = [a \in Attempt |-> <<>>]
  /\ snap = [a \in Attempt |-> Absent]
  /\ newPolicy = [a \in Attempt |-> NoFingerprint]
  /\ executed = [a \in Attempt |-> {}]
  /\ unended = {}
  /\ overdue = {}
  /\ successorAtStart = {}

\* Ids are minted in order; generateID draws them at random, and nothing
\* below depends on their order.
Fresh == {id \in RecordId : id \notin minted /\ \A j \in RecordId : j < id => j \in minted}

Over == {"returned", "failed", "crashed"}

\* The calls that are to end the lease.
Ending == {"finishComplete", "supComplete", "complete", "release"}

\* The fields of a record that an attempt reads from its copy.
View(rec) == [status |-> rec.status, meta |-> rec.meta,
              pending |-> rec.pending, decisions |-> rec.decisions]

\* Attempt a continues at `label' with its copy of the record set to s; the
\* request is used up by the submit, and locals end with the attempt.
Move(a, label, s) ==
  /\ pc' = [pc EXCEPT ![a] = label]
  /\ snap' = [snap EXCEPT ![a] = IF label \in Over THEN Absent ELSE s]
  /\ batch' = [batch EXCEPT ![a] = <<>>]
  /\ newPolicy' = [newPolicy EXCEPT ![a] = IF label \in Over THEN NoFingerprint ELSE @]

Goto(a, label) == Move(a, label, snap[a])

\* What most steps of an attempt leave alone besides the store.
Rest == UNCHANGED <<policy, target, executed, history>>

-----------------------------------------------------------------------------
\* The host: it suspends a run, decides calls directly in the store, changes
\* its policy.

\* maybeInterrupt of the original run; the policy may not witness.
Suspend(id, fp) ==
  /\ minted = {} /\ id \in Fresh
  /\ fp \in {policy, NoFingerprint}
  /\ Create(id, MetaOf(NoRecord, fp), Flagged[policy])
  /\ UNCHANGED <<policy, attemptVars, history>>

HostDecides(id, ds) ==
  /\ SubmitDecisions(id, ds)
  /\ UNCHANGED <<policy, attemptVars, history>>

ChangePolicy(fp) ==
  /\ policy' = fp
  /\ UNCHANGED <<vars, attemptVars, history>>

-----------------------------------------------------------------------------
\* ResumeInterrupt

\* A resume request carries no execute flag (toStoreDecisions).
RequestBatches == {ds \in Batches : \A i \in DOMAIN ds : ds[i].verdict # "execute"}

\* Where ResumeInterrupt goes with a record in this status: still
\* undecided, it only reports the pending calls.
AfterRead(status) == IF status = "pending" THEN "returned" ELSE "lookup"

\* Get.
Begin(a, id, ds) ==
  /\ pc[a] = "idle"
  /\ Exists(id)
  /\ target' = [target EXCEPT ![a] = id]
  /\ LET label == IF ds # <<>> THEN "submit" ELSE AfterRead(store[id].status) IN
     /\ pc' = [pc EXCEPT ![a] = label]
     /\ snap' = [snap EXCEPT ![a] = IF label \in Over THEN Absent ELSE View(store[id])]
     /\ batch' = [batch EXCEPT ![a] = ds]
  /\ successorAtStart' = IF Successors(id) # {} THEN successorAtStart \cup {a}
                         ELSE successorAtStart
  /\ UNCHANGED <<vars, policy, newPolicy, executed, unended, overdue>>

\* SubmitDecisions; an error ends the attempt even when a prefix was kept.
Submit(a) ==
  /\ pc[a] = "submit"
  /\ LET r == ApplyDecisions(store[target[a]], batch[a])
     IN  /\ IF r.committed # {} THEN SubmitDecisions(target[a], batch[a])
            ELSE UNCHANGED vars
         /\ Move(a, IF r.err # "nil" THEN "failed" ELSE AfterRead(r.rec.status),
                 View(r.rec))
  /\ Rest

\* Wrong variant: no successor look-up before the policy check.
Lookup_Skipped(a) ==
  /\ pc[a] = "lookup"
  /\ Goto(a, IF snap[a].status = "completed" THEN "failed" ELSE "classify")
  /\ UNCHANGED vars
  /\ Rest

\* earliestSuccessor.  Which of several successors is reported does not
\* matter here, only whether there is one.
Lookup(a) ==
  /\ pc[a] = "lookup"
  /\ Goto(a, IF Successors(target[a]) # {} THEN "finish"
             ELSE IF snap[a].status = "completed" THEN "failed"
             ELSE "classify")
  /\ UNCHANGED vars
  /\ Rest

\* AcquireLease succeeds and the attempt goes on with the leased record, or
\* the record refuses it.
LeaseThen(a, label, refused) ==
  \/ /\ \E ttl \in LeaseTTL : AcquireLease(target[a], a, ttl, now)
     /\ Move(a, label, View(store'[target[a]]))
  \/ /\ AcquireLeaseOn(store[target[a]], a, 0, now).err # "nil"
     /\ Goto(a, refused)
     /\ UNCHANGED vars

\* Complete; a refusal is only logged (an error too, see CallFails).
TryComplete(a) ==
  /\ IF OwnsLease(store[target[a]], a) THEN Complete(target[a], a)
     ELSE UNCHANGED vars
  /\ Goto(a, "returned")

\* finishSuperseded and completeSuperseded: lease and complete the old
\* record, ignoring errors; never release it.
Finish(a) ==
  /\ pc[a] = "finish"
  /\ \/ snap[a].status # "completed" /\ LeaseThen(a, "finishComplete", "returned")
     \/ snap[a].status = "completed" /\ Goto(a, "returned") /\ UNCHANGED vars
  /\ Rest

FinishComplete(a) ==
  /\ pc[a] = "finishComplete"
  /\ TryComplete(a)
  /\ Rest

\* classifyFrozenPolicy.  A witness that is missing or contradicts the
\* policy, and a policy that flags nothing, is drift: no lease is taken.
Classify(a) ==
  /\ pc[a] = "classify"
  /\ LET fp == snap[a].meta.fp IN
     \/ /\ fp \in {NoFingerprint, policy}
        /\ Goto(a, "acquire")
     \/ /\ fp # NoFingerprint
        /\ Goto(a, "failed")
     \/ /\ fp \notin {NoFingerprint, policy}
        /\ Flagged[policy] # {}
        /\ newPolicy' = [newPolicy EXCEPT ![a] = policy]
        /\ pc' = [pc EXCEPT ![a] = "supAcquire"]
        /\ UNCHANGED <<snap, batch>>
  /\ UNCHANGED vars
  /\ Rest

-----------------------------------------------------------------------------
\* The execute path: the lease, the tool check, the batch, the rest of the
\* run, and Complete or ReleaseLease.

Acquire(a) ==
  /\ pc[a] = "acquire"
  /\ LeaseThen(a, "compat", "failed")
  /\ Rest

\* Wrong variant: an incompatible tool set returns without a release.
Compat_NoRelease(a) ==
  /\ pc[a] = "compat"
  /\ Goto(a, "exec") \/ Goto(a, "failed")
  /\ UNCHANGED vars
  /\ Rest

Compat(a) ==
  /\ pc[a] = "compat"
  /\ Goto(a, "exec") \/ Goto(a, "release")
  /\ UNCHANGED vars
  /\ Rest

\* Wrong variant: whatever is not rejected runs.
ToExecute_NotRejected(rec) ==
  {c \in ToolCall : c \notin rec.pending \/ rec.decisions[c] # "reject"}

\* reconcileInterruptBatch: pending calls run only if approved, the others
\* of the batch are ordinary siblings; injected verdicts run no handler.
ToExecute(rec) ==
  {c \in ToolCall : c \notin rec.pending \/ rec.decisions[c] = "execute"}

Exec(a) ==
  /\ pc[a] = "exec"
  /\ executed' = [executed EXCEPT ![a] = ToExecute(snap[a])]
  /\ Goto(a, "loop")
  /\ UNCHANGED <<vars, policy, target, history>>

\* The rest of the run (return-direct or the ReAct loop) ends, fails, or
\* suspends again in a follow-up record of its own.
Loop(a) ==
  /\ pc[a] = "loop"
  /\ \/ Goto(a, "complete") /\ UNCHANGED vars
     \/ Goto(a, "release") /\ UNCHANGED vars
     \/
        /\ \E id \in Fresh : Create(id, MetaOf(NoRecord, policy), Flagged[policy])
        /\ Goto(a, "complete")
  /\ Rest

CompleteRecord(a) ==
  /\ pc[a] = "complete"
  /\ TryComplete(a)
  /\ Rest

\* ReleaseLease after an error; a refusal is dropped.
Release(a) ==
  /\ pc[a] = "release"
  /\ IF OwnsLease(store[target[a]], a)
     THEN ReleaseLease(target[a], a) ELSE UNCHANGED vars
  /\ Goto(a, "failed")
  /\ Rest

-----------------------------------------------------------------------------
\* supersedeInterrupt: lease the old record, look again for a successor,
\* create one and complete the old record.

SupAcquire(a) ==
  /\ pc[a] = "supAcquire"
  /\ LeaseThen(a, "supLookup", "failed")
  /\ Rest

\* Wrong variant: no second look-up under the lease.
SupLookup_Skipped(a) ==
  /\ pc[a] = "supLookup"
  /\ Goto(a, "supCreate")
  /\ UNCHANGED vars
  /\ Rest

SupLookup(a) ==
  /\ pc[a] = "supLookup"
  /\ Goto(a, IF Successors(target[a]) # {} THEN "supComplete" ELSE "supCreate")
  /\ UNCHANGED vars
  /\ Rest

SupCreate(a) ==
  /\ pc[a] = "supCreate"
  /\ \E id \in Fresh :
       Create(id, MetaOf(target[a], newPolicy[a]), Flagged[newPolicy[a]])
  /\ overdue' = IF granted[a][target[a]] > now THEN overdue
                ELSE overdue \cup {<<a, target[a]>>}
  /\ Goto(a, "supComplete")
  /\ UNCHANGED <<policy, target, executed, unended, successorAtStart>>

SupComplete(a) ==
  /\ pc[a] = "supComplete"
  /\ TryComplete(a)
  /\ Rest

-----------------------------------------------------------------------------
\* A store call of attempt a fails.  Before the lease the attempt just fails;
\* under it the attempt tries to release; the error of the ReleaseLease or
\* Complete that was to end the lease is dropped or logged, and the record
\* stays "resuming" until the lease expires.
CallFails(a) ==
  /\ \/ pc[a] \in {"submit", "lookup", "acquire", "supAcquire"} /\ Goto(a, "failed")
     \/ pc[a] \in {"supLookup", "supCreate"} /\ Goto(a, "release")
     \/ pc[a] \in {"finish", "finishComplete", "supComplete", "complete"}
        /\ Goto(a, "returned")
     \/ pc[a] = "release" /\ Goto(a, "failed")
  /\ unended' = IF pc[a] \in Ending THEN unended \cup {a} ELSE unended
  /\ UNCHANGED <<vars, policy, target, executed, overdue, successorAtStart>>

\* The process of attempt a dies.
Crash(a) ==
  /\ pc[a] \notin Over \cup {"idle"}
  /\ Goto(a, "crashed")
  /\ UNCHANGED vars
  /\ Rest

Tock == Tick /\ UNCHANGED <<policy, attemptVars, history>>

ResumeNext ==
  \/ Tock
  \/ \E fp \in Fingerprint : ChangePolicy(fp)
  \/ \E id \in RecordId :
       \/ \E fp \in Fingerprint \cup {NoFingerprint} : Suspend(id, fp)
       \/ \E ds \in Batches \ {<<>>} : HostDecides(id, ds)
  \/ \E a \in Attempt :
       \/ \E id \in RecordId, ds \in RequestBatches : Begin(a, id, ds)
       \/ Submit(a) \/ Lookup(a) \/ Finish(a) \/ FinishComplete(a)
       \/ Classify(a) \/ Acquire(a) \/ Compat(a) \/ Exec(a) \/ Loop(a)
       \/ CompleteRecord(a) \/ Release(a) \/ SupAcquire(a) \/ SupLookup(a)
       \/ SupCreate(a) \/ SupComplete(a)
       \/ CallFails(a) \/ Crash(a)

ResumeSpec == ResumeInit /\ [][ResumeNext]_resumeVars

-----------------------------------------------------------------------------
\* Properties

\* A handler of a pending call runs only if the host itself approved that
\* call in the store: not on an injected or rejected verdict, not on what a
\* resume request carries, not before every pending call is decided.
ApprovedCallsOnly ==
  \A a \in Attempt : \A c \in executed[a] :
    LET rec == store[target[a]] IN
    /\ AllDecided(rec.pending, rec.decisions)
    /\ c \in rec.pending => rec.decisions[c] = "execute"

\* Once a record has been superseded, every attempt that begins afterwards
\* hands over to the successor and runs no handler of the old batch, even
\* when the policy has changed back.
SuccessorObeyed ==
  \A a \in successorAtStart : executed[a] = {}

\* The attempts that superseded record id after they had lost its lease.
Overdue(id) == {a \in Attempt : <<a, id>> \in overdue}

\* A record gets a second successor only if the attempt that created it had
\* overrun its lease: within a live lease, look-up and create are atomic.
SuccessorUnique ==
  \A id \in RecordId :
    Cardinality(Successors(id)) <= 1 + Cardinality(Overdue(id))

\* A superseded record is never run by attempts that begin afterwards, and has
\* one successor for them to go to unless an attempt had overrun its lease.
SuccessorSound == SuccessorObeyed /\ SuccessorUnique

\* An attempt that returned leaves a lease of its own behind only if the very
\* call that was to end it failed; whatever other call failed before it, the
\* record stays resumable, or is completed.
ReturnedHoldsNoLease ==
  \A a \in Attempt :
    pc[a] \in {"returned", "failed"} =>
      \A id \in RecordId : (Exists(id) /\ store[id].owner = a) => a \in unended

-----------------------------------------------------------------------------
\* What a comment says that the code does not ensure.

\* "Successor lookup is before every execute path ... A successor means the
\* old decisions are abandoned even if the rules change back."  Stated for
\* an attempt whose lease is live, so that it is not about late holders.
SupersededNeverRuns ==
  [][\A a \in Attempt :
       (pc[a] = "exec" /\ pc'[a] = "loop" /\ granted[a][target[a]] > now)
         => Successors(target[a]) = {}]_resumeVars
=============================================================================
