--------------------------- MODULE InterruptLogic ---------------------------
(***************************************************************************)
(* The transition logic of an interrupt record (interrupt/logic.go), which *)
(* MapStore and FileStore share.  Every operator is the pure function one  *)
(* Go function computes: it takes the record before and returns the record *)
(* after, with the error ("nil" for success).  Each is applied by a store  *)
(* inside that store's critical section.                                   *)
(*                                                                         *)
(* A record keeps what the state machine reads.  `meta' stands for what    *)
(* the caller supplies and no transition changes (session, messages,       *)
(* parameters, policy snapshot, the superseded id).                        *)
(***************************************************************************)
EXTENDS Integers, Sequences

CONSTANTS
  ToolCall,    \* ids of the tool calls of a suspended batch
  Verdict,     \* what a human may decide about one call (content, is_error, execute)
  Undecided,   \* no entry in Record.Decisions
  Owner,       \* lease owner tokens
  NoOwner,     \* the empty LeaseOwner
  Meta,        \* caller-supplied immutable content of a record
  Absent       \* no record under this id

ASSUME LogicAssumption ==
  /\ Undecided \notin Verdict
  /\ NoOwner \notin Owner

-----------------------------------------------------------------------------
\* Record and its parts.

Status == {"pending", "ready", "resuming", "completed"}

\* The zero time.Time of an unset LeaseExpiresAt.
ZeroTime == 0

Record ==
  [ meta      : Meta,
    pending   : SUBSET ToolCall,
    decisions : [ToolCall -> Verdict \cup {Undecided}],
    status    : Status,
    owner     : Owner \cup {NoOwner},
    expires   : Nat,
    rev       : Nat ]

\* One entry of a SubmitDecisions batch.
Decision == [call : ToolCall, verdict : Verdict]

\* What a transition returns.
Ok(rec) == [rec |-> rec, err |-> "nil"]
Fail(rec, e) == [rec |-> rec, err |-> e]

-----------------------------------------------------------------------------
\* Create

\* Wrong variant: the status keeps Go's zero value.
NewRecord_NoStatus(meta, pending) ==
  [ meta |-> meta, pending |-> pending, decisions |-> [c \in ToolCall |-> Undecided],
    status |-> "", owner |-> NoOwner, expires |-> ZeroTime, rev |-> 1 ]

\* The record Create writes: revision 1, nothing decided, no lease.  Create
\* has rejected an empty Pending, so the status is pending.
NewRecord(meta, pending) ==
  [ meta      |-> meta,
    pending   |-> pending,
    decisions |-> [c \in ToolCall |-> Undecided],
    status    |-> IF pending = {} THEN "ready" ELSE "pending",
    owner     |-> NoOwner,
    expires   |-> ZeroTime,
    rev       |-> 1 ]

-----------------------------------------------------------------------------
\* SubmitDecisions

\* Wrong variant: one decision is enough.
AllDecided_Any(pending, decisions) == \E c \in pending : decisions[c] # Undecided

\* Every pending call has a committed decision.
AllDecided(pending, decisions) ==
  \A c \in pending : decisions[c] # Undecided

\* The verdict already stored for call c when the loop reaches entry i: the
\* one on record, or the first entry of the same batch for that call.
EarlierEntries(ds, c, i) == {j \in 1..(i - 1) : ds[j].call = c}

FirstEntry(ds, c, i) ==
  CHOOSE j \in EarlierEntries(ds, c, i) :
    \A k \in EarlierEntries(ds, c, i) : j <= k

ExistingAt(rec, ds, i) ==
  LET c == ds[i].call
  IN  IF rec.decisions[c] # Undecided THEN rec.decisions[c]
      ELSE IF EarlierEntries(ds, c, i) = {} THEN Undecided
      ELSE ds[FirstEntry(ds, c, i)].verdict

\* Entry i ends the loop: it names a call that is not pending, or it
\* contradicts the verdict already stored for its call.
UnknownCall(rec, ds, i) == ds[i].call \notin rec.pending

Conflict(rec, ds, i) ==
  /\ ExistingAt(rec, ds, i) # Undecided
  /\ ExistingAt(rec, ds, i) # ds[i].verdict

Rejected(rec, ds, i) == UnknownCall(rec, ds, i) \/ Conflict(rec, ds, i)

\* The entries that the loop gets through before the first rejected one.
Accepted(rec, ds) ==
  {i \in DOMAIN ds : \A j \in 1..i : ~Rejected(rec, ds, j)}

\* Wrong variant: a decision already on record counts as newly committed.
Committed_Again(rec, ds) == {c \in ToolCall : \E i \in Accepted(rec, ds) : ds[i].call = c}

\* The calls that this batch is the first to decide.
Committed(rec, ds) ==
  {c \in ToolCall : /\ rec.decisions[c] = Undecided
                    /\ \E i \in Accepted(rec, ds) : ds[i].call = c}

\* Wrong variant: the map is rebuilt from the batch alone.
MergedDecisions_BatchOnly(rec, ds) ==
  [c \in ToolCall |->
     IF c \in Committed(rec, ds) THEN (ds[FirstEntry(ds, c, Len(ds) + 1)]).verdict
     ELSE Undecided]

MergedDecisions(rec, ds) ==
  [c \in ToolCall |->
     IF c \in Committed(rec, ds)
     THEN (ds[FirstEntry(ds, c, Len(ds) + 1)]).verdict
     ELSE rec.decisions[c]]

\* commitAudit: pending becomes ready, never resuming becomes ready.
CommitAudit(rec, decisions) ==
  [rec EXCEPT !.decisions = decisions,
              !.status = IF @ = "pending" /\ AllDecided(rec.pending, decisions)
                         THEN "ready" ELSE @,
              !.rev = @ + 1]

SubmitError(rec, ds) ==
  IF Accepted(rec, ds) = DOMAIN ds THEN "nil"
  ELSE LET i == CHOOSE k \in DOMAIN ds \ Accepted(rec, ds) :
                  \A j \in DOMAIN ds \ Accepted(rec, ds) : k <= j
       IN  IF UnknownCall(rec, ds, i) THEN "ErrUnknownToolCall"
           ELSE "ErrDecisionConflict"

\* applyDecisions keeps the accepted prefix even when it returns an error.
ApplyDecisions(rec, ds) ==
  IF rec.status = "completed"
  THEN [rec |-> rec, committed |-> {}, err |-> "ErrAlreadyCompleted"]
  ELSE [ rec       |-> IF Committed(rec, ds) = {} THEN rec
                       ELSE CommitAudit(rec, MergedDecisions(rec, ds)),
         committed |-> Committed(rec, ds),
         err       |-> SubmitError(rec, ds) ]

-----------------------------------------------------------------------------
\* Leases

\* The lease is still live at time `now'.
LeaseLive(rec, now) == rec.status = "resuming" /\ rec.expires > now

\* Wrong variant: a live lease is taken over.
AcquireLeaseOn_Steal(rec, owner, ttl, now) ==
  CASE rec.status = "completed" -> Fail(rec, "ErrAlreadyCompleted")
    [] rec.status = "pending"   -> Fail(rec, "ErrNotReady")
    [] OTHER -> Ok([rec EXCEPT !.status = "resuming", !.owner = owner,
                               !.expires = now + ttl, !.rev = @ + 1])

AcquireLeaseOn(rec, owner, ttl, now) ==
  CASE rec.status = "completed" -> Fail(rec, "ErrAlreadyCompleted")
    [] rec.status = "pending"   -> Fail(rec, "ErrNotReady")
    [] LeaseLive(rec, now)      -> Fail(rec, "ErrLeaseHeld")
    [] OTHER -> Ok([rec EXCEPT !.status = "resuming", !.owner = owner,
                               !.expires = now + ttl, !.rev = @ + 1])

\* The guard of ReleaseLease and Complete: expiry is not looked at.
OwnsLease(rec, owner) == rec.status = "resuming" /\ rec.owner = owner

EndLease(rec, status) ==
  [rec EXCEPT !.status = status, !.owner = NoOwner,
              !.expires = ZeroTime, !.rev = @ + 1]

ReleaseLeaseOn(rec, owner) ==
  IF OwnsLease(rec, owner) THEN Ok(EndLease(rec, "ready"))
  ELSE Fail(rec, "ErrLeaseNotOwned")

CompleteOn(rec, owner) ==
  IF OwnsLease(rec, owner) THEN Ok(EndLease(rec, "completed"))
  ELSE Fail(rec, "ErrLeaseNotOwned")
=============================================================================
