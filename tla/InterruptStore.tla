--------------------------- MODULE InterruptStore ---------------------------
(***************************************************************************)
(* interrupt.Store as its callers may rely on it: a set of records, every  *)
(* operation atomic.  MapStore is this specification directly (one mutex   *)
(* around each operation); InterruptFileStore implements it with files and *)
(* locks.                                                                  *)
(*                                                                         *)
(* A call that returns an error without writing (cancelled context,        *)
(* malformed id, unknown id, refused transition) changes nothing and is a  *)
(* stuttering step here.                                                   *)
(*                                                                         *)
(* Two history variables record what the callers were told:                *)
(*   granted[o][id]  the expiry of the lease AcquireLease last gave to o,  *)
(*                   until o hands it back; ZeroTime if o holds none;      *)
(*   credited[id][c] how many SubmitDecisions calls were told that they    *)
(*                   committed the decision for call c.                    *)
(***************************************************************************)
EXTENDS InterruptLogic, FiniteSets

CONSTANTS
  RecordId,     \* ids generateID may mint
  LeaseTTL,     \* lease durations callers ask for
  MaxBatch,     \* bound: decisions in one SubmitDecisions call
  MaxTime,      \* bound: the clock stops here
  MaxRevision   \* bound: revisions of one record

ASSUME StoreAssumption ==
  /\ LeaseTTL \subseteq Nat
  /\ MaxBatch \in Nat
  /\ MaxTime \in Nat
  /\ MaxRevision \in Nat
  /\ Absent \notin Record

VARIABLES
  store,     \* id -> Record or Absent
  minted,    \* ids already handed out; generateID never repeats one
  now,       \* the clock
  granted,
  credited

vars == <<store, minted, now, granted, credited>>

-----------------------------------------------------------------------------
Exists(id) == store[id] # Absent

Batches == UNION {[1..n -> Decision] : n \in 0..MaxBatch}

\* A record whose revision may still grow within the bound.
Writable(id) == Exists(id) /\ store[id].rev < MaxRevision

TypeOK ==
  /\ store \in [RecordId -> Record \cup {Absent}]
  /\ minted \in SUBSET RecordId
  /\ now \in Nat
  /\ granted \in [Owner -> [RecordId -> Nat]]
  /\ credited \in [RecordId -> [ToolCall -> Nat]]

Init ==
  /\ store = [id \in RecordId |-> Absent]
  /\ minted = {}
  /\ now = 1
  /\ granted = [o \in Owner |-> [id \in RecordId |-> ZeroTime]]
  /\ credited = [id \in RecordId |-> [c \in ToolCall |-> 0]]

-----------------------------------------------------------------------------
\* Operations.  `t' is the time an operation read inside its critical
\* section: the clock may have moved on by the time its write is visible.

Create(id, meta, pending) ==
  /\ id \notin minted
  /\ pending # {}
  /\ minted' = minted \cup {id}
  /\ store' = [store EXCEPT ![id] = NewRecord(meta, pending)]
  /\ UNCHANGED <<now, granted, credited>>

Credit(id, calls) ==
  [credited EXCEPT ![id] = [c \in ToolCall |->
     IF c \in calls THEN credited[id][c] + 1 ELSE credited[id][c]]]

SubmitDecisions(id, ds) ==
  /\ Writable(id)
  /\ LET r == ApplyDecisions(store[id], ds)
     IN  /\ r.committed # {}
         /\ store' = [store EXCEPT ![id] = r.rec]
         /\ credited' = Credit(id, r.committed)
  /\ UNCHANGED <<minted, now, granted>>

AcquireLease(id, o, ttl, t) ==
  /\ Writable(id)
  /\ AcquireLeaseOn(store[id], o, ttl, t).err = "nil"
  /\ store' = [store EXCEPT ![id] = AcquireLeaseOn(@, o, ttl, t).rec]
  /\ granted' = [granted EXCEPT ![o][id] = t + ttl]
  /\ UNCHANGED <<minted, now, credited>>

ReleaseLease(id, o) ==
  /\ Writable(id)
  /\ ReleaseLeaseOn(store[id], o).err = "nil"
  /\ store' = [store EXCEPT ![id] = ReleaseLeaseOn(@, o).rec]
  /\ granted' = [granted EXCEPT ![o][id] = ZeroTime]
  /\ UNCHANGED <<minted, now, credited>>

Complete(id, o) ==
  /\ Writable(id)
  /\ CompleteOn(store[id], o).err = "nil"
  /\ store' = [store EXCEPT ![id] = CompleteOn(@, o).rec]
  /\ granted' = [granted EXCEPT ![o][id] = ZeroTime]
  /\ UNCHANGED <<minted, now, credited>>

\* Delete is not refused for a leased or undecided record.
Delete(id) ==
  /\ Exists(id)
  /\ store' = [store EXCEPT ![id] = Absent]
  /\ UNCHANGED <<minted, now, granted, credited>>

Tick ==
  /\ now < MaxTime
  /\ now' = now + 1
  /\ UNCHANGED <<store, minted, granted, credited>>

Next ==
  \/ Tick
  \/ \E id \in RecordId :
       \/ \E meta \in Meta, pending \in SUBSET ToolCall : Create(id, meta, pending)
       \/ \E ds \in Batches : SubmitDecisions(id, ds)
       \/ \E o \in Owner, ttl \in LeaseTTL, t \in 1..now :
            AcquireLease(id, o, ttl, t)
       \/ \E o \in Owner : ReleaseLease(id, o) \/ Complete(id, o)
       \/ Delete(id)

Spec == Init /\ [][Next]_vars

-----------------------------------------------------------------------------
\* Safety

\* A record that left the pending state has a verdict for every pending
\* call, so no resume can reach a call the human did not decide
\* (the Record invariant in interrupt/interrupt.go).
DecidedBeforeReady ==
  \A id \in RecordId : Exists(id) =>
    ( store[id].status # "pending" =>
        \A c \in store[id].pending : store[id].decisions[c] # Undecided )

\* Lease fields are set exactly while a record is resuming: a release, a
\* completion or a reclaim never leaves half a lease behind.
LeaseShape ==
  \A id \in RecordId : Exists(id) =>
    /\ (store[id].status = "resuming") <=> (store[id].owner # NoOwner)
    /\ (store[id].status = "resuming") <=> (store[id].expires # ZeroTime)

\* At most one owner may believe that it holds a live lease on a record,
\* even after expiry, takeover and a late release by the previous owner.
OneLiveHolder ==
  \A id \in RecordId : \A o1, o2 \in Owner :
    (granted[o1][id] > now /\ granted[o2][id] > now) => o1 = o2

\* What AcquireLease told a caller stays true until the lease runs out: the
\* record is still leased, to that caller, until the time it was given.
GrantHonoured ==
  \A id \in RecordId : Exists(id) =>
    \A o \in Owner : granted[o][id] > now =>
      /\ store[id].status = "resuming"
      /\ store[id].owner = o
      /\ store[id].expires = granted[o][id]

\* An id that was never handed out has no record, no lease and no decision:
\* a deleted record's lease or credit never reappears under a new record.
FreshIds ==
  \A id \in RecordId \ minted :
    /\ ~Exists(id)
    /\ \A o \in Owner : granted[o][id] = ZeroTime
    /\ \A c \in ToolCall : credited[id][c] = 0

\* Of all submitters racing on a call exactly one is told that it committed
\* the decision (what interrupt_decision_stored events are attributed by).
CreditedOnce ==
  \A id \in RecordId : Exists(id) =>
    \A c \in ToolCall :
      credited[id][c] = IF store[id].decisions[c] = Undecided THEN 0 ELSE 1

\* A step that keeps the record: what it may do to it.
Kept(id) == Exists(id) /\ store'[id] # Absent

\* A committed decision is never changed or withdrawn, whatever batches,
\* conflicts and lease changes follow.
DecisionsWriteOnce ==
  [][\A id \in RecordId : Kept(id) =>
       \A c \in ToolCall :
         store[id].decisions[c] # Undecided =>
           store'[id].decisions[c] = store[id].decisions[c]]_vars

\* The only moves of the state machine; completed is terminal, and a live
\* lease is not taken over.
StatusMoves ==
  [][\A id \in RecordId : Kept(id) =>
       \/ store'[id] = store[id]
       \/ /\ store'[id].rev = store[id].rev + 1
          /\ <<store[id].status, store'[id].status>> \in
               { <<"pending", "pending">>, <<"pending", "ready">>,
                 <<"ready", "resuming">>, <<"resuming", "resuming">>,
                 <<"resuming", "ready">>, <<"resuming", "completed">> }
          /\ (LeaseLive(store[id], now) /\ store'[id].status = "resuming")
               => store'[id].owner = store[id].owner]_vars

=============================================================================
